---- MODULE Spec2Model ----
(***************************************************************************)
(* A model of simple-redis: the connection I/O buffer, the RESP2 parser,   *)
(* the command dispatcher and its handlers, and the keyspace (dictionary   *)
(* with incremental rehashing + TTL min-heap) with lazy and active expiry. *)
(*                                                                         *)
(* A byte is a one-character string, a byte-string a sequence of bytes.    *)
(* Positions inside byte-strings are 0-based as in the C++ source; data[i] *)
(* of the source is data[i + 1] here.                                      *)
(***************************************************************************)
EXTENDS Integers, Sequences, FiniteSets, TLC

\* ------------------------------------------------------------------------
\* Bounds of the model
\* ------------------------------------------------------------------------

\* Number of frames a client sends on the modelled connection.
MaxFrames == 2

\* The clock reading (milliseconds) at the start, and how many milliseconds
\* the clock advances in one run.
StartMs == 10
MaxTime == 3

\* ------------------------------------------------------------------------
\* Bytes and C library helpers
\* ------------------------------------------------------------------------

CR == "\r"
LF == "\n"
CRLF == <<CR, LF>>

DigitSeq == <<"0", "1", "2", "3", "4", "5", "6", "7", "8", "9">>
Digits == {DigitSeq[i] : i \in 1..10}
DigitVal(c) == (CHOOSE i \in 1..10 : DigitSeq[i] = c) - 1

LowerSeq == <<"a","b","c","d","e","f","g","h","i","j","k","l","m",
              "n","o","p","q","r","s","t","u","v","w","x","y","z">>
UpperSeq == <<"A","B","C","D","E","F","G","H","I","J","K","L","M",
              "N","O","P","Q","R","S","T","U","V","W","X","Y","Z">>

\* ::toupper applied to one byte.
toupper(c) ==
    IF \E i \in 1..26 : LowerSeq[i] = c
    THEN UpperSeq[CHOOSE i \in 1..26 : LowerSeq[i] = c]
    ELSE c

\* std::transform(..., ::toupper) over a byte-string.
ToUpperStr(s) == [i \in 1..Len(s) |-> toupper(s[i])]

\* isspace() of the C locale (the bytes of it that the model's alphabet has).
isspace(c) == c \in {" ", "\t", "\n", "\r", "\f"}

Min(S) == CHOOSE x \in S : \A y \in S : x <= y

\* F applied to the value of e, which is computed once, before F's body.
Bind(e, F(_)) == CHOOSE r \in {F(x) : x \in {e}} : TRUE

\* First index >= i of s (1-based) that holds no white space, Len(s)+1 if none.
RECURSIVE SkipSpace(_, _)
SkipSpace(s, i) ==
    IF i <= Len(s) /\ isspace(s[i]) THEN SkipSpace(s, i + 1) ELSE i

\* Reads decimal digits from index i on: the value read and the index after
\* the last digit.
RECURSIVE ScanDigits(_, _, _)
ScanDigits(s, i, acc) ==
    IF i <= Len(s) /\ s[i] \in Digits
    THEN ScanDigits(s, i + 1, acc * 10 + DigitVal(s[i]))
    ELSE [val |-> acc, pos |-> i]

\* std::strtoll(s, &end, 10): leading white space is skipped, one optional
\* sign is read, then the longest run of digits.  end is the number of bytes
\* taken from the start; no digits means no conversion and end = 0.  The
\* model's digit strings are short, so ERANGE cannot arise.
strtoll(s) ==
    LET i   == SkipSpace(s, 1)
        neg == i <= Len(s) /\ s[i] = "-"
        j   == IF i <= Len(s) /\ s[i] \in {"-", "+"} THEN i + 1 ELSE i
        d   == ScanDigits(s, j, 0)
    IN  IF d.pos = j
        THEN [val |-> 0, end |-> 0]
        ELSE [val |-> IF neg THEN 0 - d.val ELSE d.val, end |-> d.pos - 1]

\* std::atoi: strtoll without the end pointer.
atoi(s) == strtoll(s).val

RECURSIVE NatToString(_)
NatToString(n) ==
    IF n < 10 THEN <<DigitSeq[n + 1]>>
    ELSE NatToString(n \div 10) \o <<DigitSeq[(n % 10) + 1]>>

\* std::to_string of an integer.
to_string(n) == IF n < 0 THEN <<"-">> \o NatToString(0 - n) ELSE NatToString(n)

\* ------------------------------------------------------------------------
\* Buffer (net/Buffer.cpp).  bytes is the readable region [readPos, writePos);
\* cap is data_.size().  Memory outside the readable region is never read.
\* ------------------------------------------------------------------------

kInitialCapacity == 4096
kReadBufSize == 4096

NewBuffer == [bytes |-> <<>>, readPos |-> 0, writePos |-> 0, cap |-> 0]

writableBytes(b) == b.cap - b.writePos
readableBytes(b) == b.writePos - b.readPos

\* Variant of Buffer::consume that resets the cursors whenever it is called,
\* dropping whatever followed the consumed bytes.
consume_reset(b, n) == [b EXCEPT !.bytes = <<>>, !.readPos = 0, !.writePos = 0]

\* Buffer::consume, for n <= readableBytes(b) (the assert of the source).
consume(b, n) ==
    LET r == b.readPos + n
    IN  IF r = b.writePos
        THEN [b EXCEPT !.bytes = <<>>, !.readPos = 0, !.writePos = 0]
        ELSE [b EXCEPT !.bytes = SubSeq(b.bytes, n + 1, Len(b.bytes)),
                       !.readPos = r]

RECURSIVE GrowCap(_, _)
GrowCap(newCap, needed) ==
    IF newCap < needed THEN GrowCap(newCap * 2, needed) ELSE newCap

\* Buffer::ensureWritableBytes: tier 2 compacts, tier 3 compacts and grows.
ensureWritableBytes(b, len) ==
    IF writableBytes(b) >= len THEN b
    ELSE LET readable == readableBytes(b)
         IN  IF b.cap >= readable + len
             THEN [b EXCEPT !.readPos = 0, !.writePos = readable]
             ELSE [b EXCEPT !.readPos = 0, !.writePos = readable,
                            !.cap = GrowCap(IF b.cap = 0 THEN kInitialCapacity
                                            ELSE b.cap, readable + len)]

\* The memcpy / read() into writablePtr() followed by Buffer::advanceWrite.
advanceWrite(b, data) ==
    [b EXCEPT !.bytes = b.bytes \o data, !.writePos = b.writePos + Len(data)]

\* Buffer::append
append(b, data) == advanceWrite(ensureWritableBytes(b, Len(data)), data)

\* ------------------------------------------------------------------------
\* Buffer with its memory.  data is what data_ holds up to the last index
\* that was ever written (the rest of data_, up to cap = data_.size(), holds
\* what resize() put there and is never read before it is written).
\* ------------------------------------------------------------------------

NewMemBuffer == [data |-> <<>>, readPos |-> 0, writePos |-> 0, cap |-> 0]

\* The bytes between readablePtr() and writablePtr().
Readable(m) == SubSeq(m.data, m.readPos + 1, m.writePos)

\* std::memmove(data_.data(), data_.data() + readPos_, readable)
memmove(data, readPos, readable) ==
    [i \in 1..Len(data) |-> IF i <= readable THEN data[readPos + i] ELSE data[i]]

\* Variant of Buffer::consume on the memory without the reset of tier 1.
memConsume_noreset(m, n) == [m EXCEPT !.readPos = m.readPos + n]

\* Buffer::consume on the memory, for n <= readableBytes (the assert).
memConsume(m, n) ==
    IF m.readPos + n = m.writePos
    THEN [m EXCEPT !.readPos = 0, !.writePos = 0]
    ELSE [m EXCEPT !.readPos = m.readPos + n]

\* Variant of Buffer::ensureWritableBytes that moves the cursors to the
\* front and leaves the bytes where they are.
memEnsureWritableBytes_nomove(m, len) ==
    IF writableBytes(m) >= len THEN m
    ELSE IF m.cap >= readableBytes(m) + len
    THEN [m EXCEPT !.readPos = 0, !.writePos = readableBytes(m)]
    ELSE [m EXCEPT !.readPos = 0, !.writePos = readableBytes(m),
                   !.cap = GrowCap(IF m.cap = 0 THEN kInitialCapacity ELSE m.cap,
                                   readableBytes(m) + len)]

\* Variant of Buffer::ensureWritableBytes whose tier 3 resizes to the size
\* needed instead of doubling from the initial capacity.
memEnsureWritableBytes_exact(m, len) ==
    IF writableBytes(m) >= len THEN m
    ELSE IF m.cap >= readableBytes(m) + len
    THEN [m EXCEPT !.data = memmove(m.data, m.readPos, readableBytes(m)),
                   !.readPos = 0, !.writePos = readableBytes(m)]
    ELSE [m EXCEPT !.data = memmove(m.data, m.readPos, readableBytes(m)),
                   !.readPos = 0, !.writePos = readableBytes(m),
                   !.cap = readableBytes(m) + len]

\* Buffer::ensureWritableBytes on the memory: nothing to do, tier 2
\* (memmove to the front) or tier 3 (memmove, then resize to the capacity
\* doubled until it suffices).
memEnsureWritableBytes(m, len) ==
    IF writableBytes(m) >= len THEN m
    ELSE IF m.cap >= readableBytes(m) + len
    THEN [m EXCEPT !.data = memmove(m.data, m.readPos, readableBytes(m)),
                   !.readPos = 0, !.writePos = readableBytes(m)]
    ELSE [m EXCEPT !.data = memmove(m.data, m.readPos, readableBytes(m)),
                   !.readPos = 0, !.writePos = readableBytes(m),
                   !.cap = GrowCap(IF m.cap = 0 THEN kInitialCapacity ELSE m.cap,
                                   readableBytes(m) + len)]

\* The bytes bytes stored at writablePtr(), then Buffer::advanceWrite, for
\* Len(bytes) <= writableBytes (the assert).
memAdvanceWrite(m, bytes) ==
    [m EXCEPT !.data = [i \in 1..(IF Len(m.data) > m.writePos + Len(bytes)
                                  THEN Len(m.data) ELSE m.writePos + Len(bytes)) |->
                           IF i > m.writePos /\ i <= m.writePos + Len(bytes)
                           THEN bytes[i - m.writePos]
                           ELSE m.data[i]],
              !.writePos = m.writePos + Len(bytes)]

\* Buffer::append on the memory.
memAppend(m, bytes) == memAdvanceWrite(memEnsureWritableBytes(m, Len(bytes)), bytes)

\* ------------------------------------------------------------------------
\* RespParser
\* ------------------------------------------------------------------------

Incomplete == [ok |-> FALSE, args |-> <<>>, consumed |-> 0]

\* RespParser::findCRLF: offset of the first CR LF at or after offset, or -1.
findCRLF(data, offset) ==
    IF Len(data) < offset + 2 THEN -1
    ELSE LET hits == {i \in offset..(Len(data) - 2) :
                         data[i + 1] = CR /\ data[i + 2] = LF}
         IN  IF hits = {} THEN -1 ELSE Min(hits)

\* Variant of the bulk-string loop that ends a payload at the first CR LF
\* after its header instead of at its declared length.
RECURSIVE parseBulks_scan(_, _, _, _, _)
parseBulks_scan(data, pos, i, count, args) ==
    IF i >= count THEN [ok |-> TRUE, args |-> args, consumed |-> pos]
    ELSE IF pos >= Len(data) THEN Incomplete
    ELSE IF data[pos + 1] # "$" THEN Incomplete
    ELSE LET lenCRLF == findCRLF(data, pos + 1)
         IN  IF lenCRLF < 0 THEN Incomplete
             ELSE LET dataStart == lenCRLF + 2
                      dataEnd   == findCRLF(data, dataStart)
                  IN  IF dataEnd < 0 THEN Incomplete
                      ELSE parseBulks_scan(data, dataEnd + 2, i + 1, count,
                                           Append(args,
                                                  SubSeq(data, dataStart + 1, dataEnd)))

\* The bulk-string loop of RespParser::parseArray, from element i on.
RECURSIVE parseBulks(_, _, _, _, _)
parseBulks(data, pos, i, count, args) ==
    IF i >= count THEN [ok |-> TRUE, args |-> args, consumed |-> pos]
    ELSE IF pos >= Len(data) THEN Incomplete
    ELSE IF data[pos + 1] # "$" THEN Incomplete
    ELSE LET lenCRLF == findCRLF(data, pos + 1)
         IN  IF lenCRLF < 0 THEN Incomplete
             ELSE LET bulkLen   == atoi(SubSeq(data, pos + 2, lenCRLF))
                      dataStart == lenCRLF + 2
                      dataEnd   == dataStart + bulkLen
                  IN  IF bulkLen < 0
                      THEN parseBulks(data, lenCRLF + 2, i + 1, count,
                                      Append(args, <<>>))
                      ELSE IF dataEnd + 2 > Len(data) THEN Incomplete
                      ELSE IF data[dataEnd + 1] # CR \/ data[dataEnd + 2] # LF
                           THEN Incomplete
                      ELSE parseBulks(data, dataEnd + 2, i + 1, count,
                                      Append(args,
                                             SubSeq(data, dataStart + 1, dataEnd)))

\* RespParser::parseArray
parseArray(data) ==
    LET crlfPos == findCRLF(data, 1)
    IN  IF crlfPos < 0 THEN Incomplete
        ELSE LET count == atoi(SubSeq(data, 2, crlfPos))
             IN  IF count < 0
                 THEN [ok |-> TRUE, args |-> <<>>, consumed |-> crlfPos + 2]
                 ELSE parseBulks(data, crlfPos + 2, 0, count, <<>>)

\* The token loop of RespParser::parseInline: split the line on spaces.
RECURSIVE splitSpaces(_, _, _)
splitSpaces(line, pos, args) ==
    LET RECURSIVE skip(_)
        skip(p) == IF p <= Len(line) /\ line[p] = " " THEN skip(p + 1) ELSE p
        RECURSIVE tokenEnd(_)
        tokenEnd(p) == IF p <= Len(line) /\ line[p] # " " THEN tokenEnd(p + 1) ELSE p
        start == skip(pos)
    IN  IF start > Len(line) THEN args
        ELSE splitSpaces(line, tokenEnd(start),
                         Append(args, SubSeq(line, start, tokenEnd(start) - 1)))

\* RespParser::parseInline
parseInline(data) ==
    LET crlfPos == findCRLF(data, 0)
    IN  IF crlfPos < 0 THEN Incomplete
        ELSE [ok |-> TRUE,
              args |-> splitSpaces(SubSeq(data, 1, crlfPos), 1, <<>>),
              consumed |-> crlfPos + 2]

\* Variant of RespParser::parse that consumes the array header line as soon
\* as it is complete, whether or not the elements have arrived.
parse_eager(buf) ==
    IF readableBytes(buf) = 0 THEN [ok |-> FALSE, args |-> <<>>, buf |-> buf]
    ELSE LET result == IF buf.bytes[1] = "*" THEN parseArray(buf.bytes)
                       ELSE parseInline(buf.bytes)
         IN  IF result.ok
             THEN [ok |-> TRUE, args |-> result.args,
                   buf |-> consume(buf, result.consumed)]
             ELSE IF buf.bytes[1] = "*" /\ findCRLF(buf.bytes, 1) >= 0
             THEN [ok |-> FALSE, args |-> <<>>,
                   buf |-> consume(buf, findCRLF(buf.bytes, 1) + 2)]
             ELSE [ok |-> FALSE, args |-> <<>>, buf |-> buf]

\* RespParser::parse: the command (or Incomplete) and the buffer afterwards.
parse(buf) ==
    IF readableBytes(buf) = 0 THEN [ok |-> FALSE, args |-> <<>>, buf |-> buf]
    ELSE LET result == IF buf.bytes[1] = "*" THEN parseArray(buf.bytes)
                       ELSE parseInline(buf.bytes)
         IN  IF result.ok
             THEN [ok |-> TRUE, args |-> result.args,
                   buf |-> consume(buf, result.consumed)]
             ELSE [ok |-> FALSE, args |-> <<>>, buf |-> buf]

\* AOFWriter::formatRespCommand: argv as a RESP2 array of bulk strings.
RECURSIVE formatBulks(_, _)
formatBulks(args, i) ==
    IF i > Len(args) THEN <<>>
    ELSE <<"$">> \o to_string(Len(args[i])) \o CRLF \o args[i] \o CRLF
         \o formatBulks(args, i + 1)

formatRespCommand(args) ==
    <<"*">> \o to_string(Len(args)) \o CRLF \o formatBulks(args, 1)

\* ------------------------------------------------------------------------
\* RedisObject (store/RedisObject.cpp)
\* ------------------------------------------------------------------------

\* The std::variant payload of a RedisObject: one field per alternative,
\* the inactive ones empty, so that any two payloads can be compared.
NoData ==
    [str |-> <<>>, int |-> 0, list |-> <<>>, hash |-> <<>>, set |-> {},
     skiplist |-> <<>>, dict |-> <<>>]

\* RedisObject::createString: INTEGER encoding when strtoll takes the whole
\* non-empty byte-string, RAW otherwise.
createString(val) ==
    LET p == strtoll(val)
    IN  IF val # <<>> /\ p.end = Len(val)
        THEN [type |-> "STRING", encoding |-> "INTEGER",
              data |-> [NoData EXCEPT !.int = p.val]]
        ELSE [type |-> "STRING", encoding |-> "RAW",
              data |-> [NoData EXCEPT !.str = val]]

\* RedisObject::createList, createHash, createSet, createZSet
createList == [type |-> "LIST", encoding |-> "LINKEDLIST", data |-> NoData]
createHash == [type |-> "HASH", encoding |-> "HASHTABLE", data |-> NoData]
createSet  == [type |-> "SET", encoding |-> "HASHTABLE", data |-> NoData]
createZSet == [type |-> "ZSET", encoding |-> "SKIPLIST", data |-> NoData]

\* RedisObject::asString; std::get_if of an alternative that is not the
\* active one yields the empty string.
asString(obj) ==
    IF obj.encoding = "INTEGER"
    THEN IF obj.type = "STRING" THEN to_string(obj.data.int) ELSE <<>>
    ELSE IF obj.type = "STRING" THEN obj.data.str ELSE <<>>

\* ------------------------------------------------------------------------
\* HashTable (store/HashTable.cpp).  A table is its array of chains, each
\* chain a sequence of entries from the head on; an unallocated table
\* (slots == nullptr) has capacity 0 and no slots.
\* ------------------------------------------------------------------------

kHTInitialCapacity == 4
kRehashBatchSize == 128

\* The numeric value of a byte of the model's alphabet.
Ord(c) ==
    IF \E i \in 1..26 : LowerSeq[i] = c
        THEN 96 + (CHOOSE i \in 1..26 : LowerSeq[i] = c)
    ELSE IF \E i \in 1..26 : UpperSeq[i] = c
        THEN 64 + (CHOOSE i \in 1..26 : UpperSeq[i] = c)
    ELSE IF c \in Digits THEN 48 + DigitVal(c)
    ELSE CASE c = "\t" -> 9  [] c = "\n" -> 10 [] c = "\f" -> 12
           [] c = "\r" -> 13 [] c = " " -> 32  [] c = "$" -> 36
           [] c = "*" -> 42  [] c = "+" -> 43  [] c = "-" -> 45
           [] OTHER -> 63

RECURSIVE XorBits(_, _)
XorBits(a, b) ==
    IF a = 0 THEN b
    ELSE IF b = 0 THEN a
    ELSE (((a % 2) + (b % 2)) % 2) + (2 * XorBits(a \div 2, b \div 2))

\* The FNV-1a offset basis and prime, reduced modulo 2^16.
kFNVOffsetBasis == 8997
kFNVPrime == 435

\* HashTable::hash, FNV-1a/64, kept modulo 2^16: XOR with a byte and the
\* multiplication both act on the low 16 bits independently of the higher
\* ones, so this is exactly the low 16 bits of the 64-bit hash.  Every use of
\* a hash code is (hashCode & mask) with mask < 2^16, or an equality test
\* that is paired with the comparison of the keys.
RECURSIVE fnv1a(_, _, _)
fnv1a(key, i, h) ==
    IF i > Len(key) THEN h
    ELSE fnv1a(key, i + 1, (XorBits(h, Ord(key[i])) * kFNVPrime) % 65536)

hash(key) == fnv1a(key, 1, kFNVOffsetBasis)

NoTable == [slots |-> <<>>, capacity |-> 0, mask |-> 0, size |-> 0]

\* HashTable::allocTable
allocTable(capacity) ==
    [slots |-> [i \in 1..capacity |-> <<>>], capacity |-> capacity,
     mask |-> capacity - 1, size |-> 0]

\* HashTable::HashTable
NewHashTable ==
    [primary |-> NoTable, rehash |-> NoTable, isRehashing |-> FALSE,
     rehashIdx |-> 0]

\* hashCode & table.mask (the mask is capacity - 1, capacity a power of two).
slotOf(table, hashCode) == hashCode % (table.mask + 1)

\* Index in a chain of the first entry with this hash code and key, 0 if none.
chainIndex(chain, key, hashCode) ==
    LET hits == {i \in 1..Len(chain) :
                    chain[i].hashCode = hashCode /\ chain[i].key = key}
    IN  IF hits = {} THEN 0 ELSE Min(hits)

NoEntry == [found |-> FALSE]

\* HashTable::findInTable
findInTable(table, key, hashCode) ==
    IF table.capacity = 0 THEN NoEntry
    ELSE LET chain == table.slots[slotOf(table, hashCode) + 1]
             i     == chainIndex(chain, key, hashCode)
         IN  IF i = 0 THEN NoEntry
             ELSE [found |-> TRUE, entry |-> chain[i]]

\* A find that looks in the primary table only.
find_primary(ht, key) == findInTable(ht.primary, key, hash(key))

\* HashTable::find
find(ht, key) ==
    LET h == hash(key)
        e == findInTable(ht.primary, key, h)
    IN  IF e.found THEN e
        ELSE IF ht.isRehashing THEN findInTable(ht.rehash, key, h)
        ELSE NoEntry

RemoveAt(seq, i) == SubSeq(seq, 1, i - 1) \o SubSeq(seq, i + 1, Len(seq))

\* HashTable::delFromTable: the table afterwards and whether an entry went.
delFromTable(table, key, hashCode) ==
    IF table.capacity = 0 THEN [table |-> table, ok |-> FALSE]
    ELSE LET idx   == slotOf(table, hashCode) + 1
             chain == table.slots[idx]
             i     == chainIndex(chain, key, hashCode)
         IN  IF i = 0 THEN [table |-> table, ok |-> FALSE]
             ELSE [table |-> [table EXCEPT !.slots[idx] = RemoveAt(chain, i),
                                           !.size = table.size - 1],
                   ok |-> TRUE]

\* A triggerRehash whose new primary table is no larger than the old one.
triggerRehash_same(ht) ==
    [primary |-> allocTable(ht.primary.capacity), rehash |-> ht.primary,
     isRehashing |-> TRUE, rehashIdx |-> 0]

\* HashTable::triggerRehash
triggerRehash(ht) ==
    [primary |-> allocTable(ht.primary.capacity * 2), rehash |-> ht.primary,
     isRehashing |-> TRUE, rehashIdx |-> 0]

\* The entries of a chain pushed one by one onto the heads of primary's chains.
RECURSIVE migrateChain(_, _, _)
migrateChain(primary, chain, i) ==
    IF i > Len(chain) THEN primary
    ELSE LET idx == slotOf(primary, chain[i].hashCode) + 1
         IN  migrateChain([primary EXCEPT !.slots[idx] = <<chain[i]>> \o @,
                                          !.size = @ + 1],
                          chain, i + 1)

RECURSIVE skipEmptySlots(_, _)
skipEmptySlots(table, idx) ==
    IF idx < table.capacity /\ table.slots[idx + 1] = <<>>
    THEN skipEmptySlots(table, idx + 1) ELSE idx

\* A migrateOneSlot that chains the entries of the slot in primary_ and
\* leaves them chained in rehash_ as well.
migrateOneSlot_copy(ht) ==
    LET idx == skipEmptySlots(ht.rehash, ht.rehashIdx)
    IN  IF idx >= ht.rehash.capacity
        THEN [ht EXCEPT !.rehash = NoTable, !.isRehashing = FALSE,
                        !.rehashIdx = 0]
        ELSE [ht EXCEPT
                 !.primary = migrateChain(@, ht.rehash.slots[idx + 1], 1),
                 !.rehashIdx = idx + 1]

\* HashTable::migrateOneSlot
migrateOneSlot(ht) ==
    LET idx == skipEmptySlots(ht.rehash, ht.rehashIdx)
    IN  IF idx >= ht.rehash.capacity
        THEN [ht EXCEPT !.rehash = NoTable, !.isRehashing = FALSE,
                        !.rehashIdx = 0]
        ELSE LET chain   == ht.rehash.slots[idx + 1]
                 primary == migrateChain(ht.primary, chain, 1)
                 rehash  == [ht.rehash EXCEPT !.slots[idx + 1] = <<>>,
                                              !.size = @ - Len(chain)]
             IN  IF rehash.size = 0
                 THEN [primary |-> primary, rehash |-> NoTable,
                       isRehashing |-> FALSE, rehashIdx |-> 0]
                 ELSE [primary |-> primary, rehash |-> rehash,
                       isRehashing |-> TRUE, rehashIdx |-> idx + 1]

\* A rehashStep that migrates one slot whatever nSteps is.
rehashStep_one(ht, nSteps) ==
    IF nSteps <= 0 \/ ~ht.isRehashing THEN ht ELSE migrateOneSlot(ht)

\* HashTable::rehashStep
RECURSIVE rehashStep(_, _)
rehashStep(ht, nSteps) ==
    IF nSteps <= 0 \/ ~ht.isRehashing THEN ht
    ELSE rehashStep(migrateOneSlot(ht), nSteps - 1)

kMaxLoadFactorNum == 2

\* The rehashStep() that HashTable::set and HashTable::del begin with.
stepIfRehashing(ht0) ==
    IF ht0.isRehashing THEN rehashStep(ht0, kRehashBatchSize) ELSE ht0

\* A second step of HashTable::set that leaves rehash_ as it is.
dropFromRehash_keep(ht1, key, h) == ht1

\* HashTable::set, second step: delFromTable(rehash_, key, h) while rehashing.
dropFromRehash(ht1, key, h) ==
    IF ht1.isRehashing
    THEN [ht1 EXCEPT !.rehash = delFromTable(@, key, h).table]
    ELSE ht1

\* HashTable::set, third step: the lazy allocation of the primary table.
allocIfNone(ht2) ==
    IF ht2.primary.capacity = 0
    THEN [ht2 EXCEPT !.primary = allocTable(kHTInitialCapacity)]
    ELSE ht2

\* HashTable::set, last step: triggerRehash when the load factor is passed.
growIfLoaded(ht4) ==
    IF ~ht4.isRehashing
       /\ ht4.primary.size > kMaxLoadFactorNum * ht4.primary.capacity
    THEN triggerRehash(ht4)
    ELSE ht4

\* HashTable::set, fourth step: overwrite the value of an entry of primary
\* (its expireAt stays), or chain a new entry with expireAt -1 at the head.
setInPrimary(ht3, key, value, h) ==
    LET idx == slotOf(ht3.primary, h) + 1
        i   == chainIndex(ht3.primary.slots[idx], key, h)
    IN  IF i # 0
        THEN [ht3 EXCEPT !.primary.slots[idx][i].value = value]
        ELSE growIfLoaded([ht3 EXCEPT
                 !.primary.slots[idx] =
                     <<[key |-> key, value |-> value, hashCode |-> h,
                        expireAt |-> -1]>> \o @,
                 !.primary.size = @ + 1])

\* HashTable::set
htSet(ht0, key, value) ==
    setInPrimary(allocIfNone(dropFromRehash(stepIfRehashing(ht0), key, hash(key))),
                 key, value, hash(key))

\* HashTable::del after its rehash step: primary first, then rehash_.
delFromBoth(ht1, key, h) ==
    IF delFromTable(ht1.primary, key, h).ok
    THEN [ht |-> [ht1 EXCEPT !.primary = delFromTable(@, key, h).table],
          ok |-> TRUE]
    ELSE IF ht1.isRehashing
    THEN [ht |-> [ht1 EXCEPT !.rehash = delFromTable(@, key, h).table],
          ok |-> delFromTable(ht1.rehash, key, h).ok]
    ELSE [ht |-> ht1, ok |-> FALSE]

\* HashTable::del: the table afterwards and whether the key existed.
htDel(ht0, key) == delFromBoth(stepIfRehashing(ht0), key, hash(key))

\* A size that counts the primary table only.
htSize_primary(ht) == ht.primary.size

\* HashTable::size
htSize(ht) == ht.primary.size + ht.rehash.size

RECURSIVE Flatten(_, _)
Flatten(slots, i) ==
    IF i > Len(slots) THEN <<>> ELSE slots[i] \o Flatten(slots, i + 1)

\* Every entry of both tables, in the order HashTable::keys collects them.
htEntries(ht) == Flatten(ht.primary.slots, 1) \o Flatten(ht.rehash.slots, 1)

\* HashTable::keys
htKeys(ht) == [i \in 1..Len(htEntries(ht)) |-> htEntries(ht)[i].key]

\* A write through the HTEntry* that find returned: the entry that find
\* reaches for this key is replaced by e, wherever it is chained.
storeEntry(ht, key, e) ==
    LET h  == hash(key)
        pi == IF ht.primary.capacity = 0 THEN 0
              ELSE chainIndex(ht.primary.slots[slotOf(ht.primary, h) + 1], key, h)
        ri == IF ht.rehash.capacity = 0 THEN 0
              ELSE chainIndex(ht.rehash.slots[slotOf(ht.rehash, h) + 1], key, h)
    IN  IF pi # 0
        THEN [ht EXCEPT !.primary.slots[slotOf(ht.primary, h) + 1][pi] = e]
        ELSE IF ht.isRehashing /\ ri # 0
        THEN [ht EXCEPT !.rehash.slots[slotOf(ht.rehash, h) + 1][ri] = e]
        ELSE ht


\* ------------------------------------------------------------------------
\* Finite maps (std::unordered_map), as functions; <<>> is the empty map.
\* ------------------------------------------------------------------------

MapPut(f, k, v) == [y \in (DOMAIN f) \cup {k} |-> IF y = k THEN v ELSE f[y]]
MapErase(f, k) == [y \in (DOMAIN f) \ {k} |-> f[y]]

\* ------------------------------------------------------------------------
\* TTLHeap (store/TTLHeap.cpp).  heap is heap_ (index i of the source is
\* heap[i + 1]); keyToIndex maps a key to its 0-based heap index.
\* ------------------------------------------------------------------------

NewTTLHeap == [heap |-> <<>>, keyToIndex |-> <<>>]

\* TTLHeap::swapEntries
swapEntries(h, a, b) ==
    LET heap == [h.heap EXCEPT ![a + 1] = h.heap[b + 1], ![b + 1] = h.heap[a + 1]]
    IN  [heap |-> heap,
         keyToIndex |-> MapPut(MapPut(h.keyToIndex, heap[a + 1].key, a),
                               heap[b + 1].key, b)]

\* TTLHeap::siftUp
RECURSIVE siftUp(_, _)
siftUp(h, idx) ==
    IF idx <= 0 THEN h
    ELSE LET parent == (idx - 1) \div 2
         IN  IF h.heap[idx + 1].expireAtMs >= h.heap[parent + 1].expireAtMs
             THEN h
             ELSE siftUp(swapEntries(h, idx, parent), parent)

\* A siftDown that moves the entry one level down and stops there.
siftDown_once(h, idx) ==
    LET left  == (2 * idx) + 1
        right == (2 * idx) + 2
        s1 == IF left < Len(h.heap)
                 /\ h.heap[left + 1].expireAtMs < h.heap[idx + 1].expireAtMs
              THEN left ELSE idx
        smallest == IF right < Len(h.heap)
                       /\ h.heap[right + 1].expireAtMs < h.heap[s1 + 1].expireAtMs
                    THEN right ELSE s1
    IN  IF smallest = idx THEN h ELSE swapEntries(h, idx, smallest)

\* TTLHeap::siftDown
RECURSIVE siftDown(_, _)
siftDown(h, idx) ==
    LET left  == (2 * idx) + 1
        right == (2 * idx) + 2
        s1 == IF left < Len(h.heap)
                 /\ h.heap[left + 1].expireAtMs < h.heap[idx + 1].expireAtMs
              THEN left ELSE idx
        smallest == IF right < Len(h.heap)
                       /\ h.heap[right + 1].expireAtMs < h.heap[s1 + 1].expireAtMs
                    THEN right ELSE s1
    IN  IF smallest = idx THEN h
        ELSE siftDown(swapEntries(h, idx, smallest), smallest)

\* TTLHeap::update for a key that is present, TTLHeap::push for one that is
\* not (each of the two delegates to the other in the opposite case).
heapUpdatePresent(h, key, newExpireAtMs) ==
    LET idx == h.keyToIndex[key]
        h1  == [h EXCEPT !.heap[idx + 1].expireAtMs = newExpireAtMs]
        h2  == siftUp(h1, idx)
    IN  siftDown(h2, idx)

heapPushAbsent(h, key, expireAtMs) ==
    LET h1 == [heap |-> Append(h.heap, [key |-> key, expireAtMs |-> expireAtMs]),
               keyToIndex |-> MapPut(h.keyToIndex, key, Len(h.heap))]
    IN  siftUp(h1, Len(h.heap))

\* TTLHeap::push
heapPush(h, key, expireAtMs) ==
    IF key \in DOMAIN h.keyToIndex
    THEN heapUpdatePresent(h, key, expireAtMs)
    ELSE heapPushAbsent(h, key, expireAtMs)

\* TTLHeap::update
heapUpdate(h, key, newExpireAtMs) ==
    IF key \notin DOMAIN h.keyToIndex
    THEN heapPushAbsent(h, key, newExpireAtMs)
    ELSE heapUpdatePresent(h, key, newExpireAtMs)

\* heap_.pop_back() with the erase of the popped key from keyToIndex_.
popBack(h) ==
    [heap |-> SubSeq(h.heap, 1, Len(h.heap) - 1),
     keyToIndex |-> MapErase(h.keyToIndex, h.heap[Len(h.heap)].key)]

\* TTLHeap::remove
heapRemove(h, key) ==
    IF key \notin DOMAIN h.keyToIndex THEN h
    ELSE LET idx     == h.keyToIndex[key]
             lastIdx == Len(h.heap) - 1
             h1 == IF idx # lastIdx THEN swapEntries(h, idx, lastIdx) ELSE h
             h2 == popBack(h1)
         IN  IF idx < Len(h2.heap) THEN siftUp(siftDown(h2, idx), idx) ELSE h2

\* A popExpired that pops every expired entry, whatever maxWork is.
RECURSIVE popExpired_all(_, _, _, _)
popExpired_all(h, nowMs, maxWork, expired) ==
    IF h.heap = <<>> THEN [h |-> h, expired |-> expired]
    ELSE IF h.heap[1].expireAtMs > nowMs
        THEN [h |-> h, expired |-> expired]
    ELSE LET key     == h.heap[1].key
             lastIdx == Len(h.heap) - 1
             h1 == IF lastIdx > 0 THEN swapEntries(h, 0, lastIdx) ELSE h
             h2 == popBack(h1)
             h3 == IF h2.heap # <<>> THEN siftDown(h2, 0) ELSE h2
         IN  popExpired_all(h3, nowMs, maxWork, Append(expired, key))

\* TTLHeap::popExpired: the heap afterwards and the keys popped, in order.
RECURSIVE popExpired(_, _, _, _)
popExpired(h, nowMs, maxWork, expired) ==
    IF h.heap = <<>> \/ Len(expired) >= maxWork
        THEN [h |-> h, expired |-> expired]
    ELSE IF h.heap[1].expireAtMs > nowMs
        THEN [h |-> h, expired |-> expired]
    ELSE LET key     == h.heap[1].key
             lastIdx == Len(h.heap) - 1
             h1 == IF lastIdx > 0 THEN swapEntries(h, 0, lastIdx) ELSE h
             h2 == popBack(h1)
             h3 == IF h2.heap # <<>> THEN siftDown(h2, 0) ELSE h2
         IN  popExpired(h3, nowMs, maxWork, Append(expired, key))

\* ------------------------------------------------------------------------
\* Database (store/Database.cpp).  Every operation takes the value nowMs()
\* returns while it runs and yields the database afterwards with its result.
\* ------------------------------------------------------------------------

NewDatabase == [table |-> NewHashTable, ttlHeap |-> NewTTLHeap]

\* Database::checkAndExpire
checkAndExpire(db, now, key, entry) ==
    IF entry.expireAt < 0 THEN [db |-> db, expired |-> FALSE]
    ELSE IF now < entry.expireAt THEN [db |-> db, expired |-> FALSE]
    ELSE [db |-> [table |-> htDel(db.table, key).ht,
                  ttlHeap |-> heapRemove(db.ttlHeap, key)],
          expired |-> TRUE]

Nothing == [has |-> FALSE]

\* The lines Database::get, exists, setExpire and findEntry share after
\* checkAndExpire(key, entry) has run with outcome c: an expired entry is
\* gone and the operation answers `absent`.
expiredOr(c, absent, present) ==
    IF c.expired THEN [db |-> c.db, ret |-> absent] ELSE present

\* The same lines from the lookup on: e is table_.find(key).
lookup(db, now, key, e, absent, present) ==
    IF ~e.found THEN [db |-> db, ret |-> absent]
    ELSE expiredOr(checkAndExpire(db, now, key, e.entry), absent, present)

\* Database::rehashStep
dbRehashStep(db) == [db EXCEPT !.table = rehashStep(@, kRehashBatchSize)]

\* Database::get after its rehash step.
getStepped(db, now, key) ==
    lookup(db, now, key, find(db.table, key), Nothing,
           [db |-> db,
            ret |-> [has |-> TRUE,
                     val |-> asString(find(db.table, key).entry.value)]])

\* Database::get
dbGet(db0, now, key) == getStepped(dbRehashStep(db0), now, key)

\* Variant of Database::set that leaves the entry's expireAt as table_.set
\* left it.
clearExpire_keep(t1, key) == t1

\* Database::set after table_.set(key, createString(value)) gave t1: the
\* entry's expireAt is reset to -1.
clearExpire(t1, key) ==
    IF find(t1, key).found
    THEN storeEntry(t1, key, [find(t1, key).entry EXCEPT !.expireAt = -1])
    ELSE t1

\* Database::set
dbSet(db, key, value) ==
    [table   |-> clearExpire(htSet(db.table, key, createString(value)), key),
     ttlHeap |-> heapRemove(db.ttlHeap, key)]

\* Database::del
dbDel(db, key) ==
    [db  |-> [table |-> htDel(db.table, key).ht,
              ttlHeap |-> heapRemove(db.ttlHeap, key)],
     ret |-> htDel(db.table, key).ok]

\* Database::exists after its rehash step.
existsStepped(db, now, key) ==
    lookup(db, now, key, find(db.table, key), FALSE, [db |-> db, ret |-> TRUE])

\* Database::exists
dbExists(db0, now, key) == existsStepped(dbRehashStep(db0), now, key)

\* Database::keys after its rehash step.
keysStepped(db) == [db |-> db, ret |-> htKeys(db.table)]

\* Database::keys
dbKeys(db0) == keysStepped(dbRehashStep(db0))

\* Database::dbsize
dbsize(db) == htSize(db.table)

\* Database::setExpire
setExpire(db, now, key, expireAtMs) ==
    lookup(db, now, key, find(db.table, key), FALSE,
           [db  |-> [table |-> storeEntry(db.table, key,
                                  [find(db.table, key).entry
                                       EXCEPT !.expireAt = expireAtMs]),
                     ttlHeap |-> heapPush(db.ttlHeap, key, expireAtMs)],
            ret |-> TRUE])

\* Database::removeExpire
removeExpire(db, key) ==
    IF ~find(db.table, key).found THEN db
    ELSE [table |-> storeEntry(db.table, key,
                        [find(db.table, key).entry EXCEPT !.expireAt = -1]),
          ttlHeap |-> heapRemove(db.ttlHeap, key)]

\* Database::ttl once the entry e is found.  nowMs() is read once for the
\* expiry test (now) and once more for the remaining time (now2 >= now).
ttlOf(db, now, now2, key, e) ==
    IF ~e.found THEN [db |-> db, ret |-> -2]
    ELSE IF e.entry.expireAt >= 0 /\ now >= e.entry.expireAt
    THEN [db |-> [table |-> htDel(db.table, key).ht,
                  ttlHeap |-> heapRemove(db.ttlHeap, key)],
          ret |-> -2]
    ELSE IF e.entry.expireAt < 0 THEN [db |-> db, ret |-> -1]
    ELSE [db |-> db, ret |-> e.entry.expireAt - now2]

\* Database::ttl
ttl(db, now, now2, key) == ttlOf(db, now, now2, key, find(db.table, key))

RECURSIVE delAll(_, _, _)
\* Database::activeExpireCycle, the table_.del(key) of each expired key.
delAll(table, keys, i) ==
    IF i > Len(keys) THEN table
    ELSE delAll(htDel(table, keys[i]).ht, keys, i + 1)

\* Database::activeExpireCycle once popExpired has run with outcome p.
expireAll(db, p) == [table |-> delAll(db.table, p.expired, 1), ttlHeap |-> p.h]

\* Variant of Database::activeExpireCycle that pops every expired key,
\* whatever maxWork says.
activeExpireCycle_unbounded(db, now, maxWork) ==
    Bind(popExpired(db.ttlHeap, now, Len(db.ttlHeap.heap), <<>>),
         LAMBDA p : expireAll(db, p))

\* Database::activeExpireCycle
activeExpireCycle(db, now, maxWork) ==
    Bind(popExpired(db.ttlHeap, now, maxWork, <<>>), LAMBDA p : expireAll(db, p))

\* Database::findEntry (declared in store/Database.h; its body is not among
\* the sources): lazy expiry check, then the entry or nothing.
findEntry(db, now, key) ==
    lookup(db, now, key, find(db.table, key), NoEntry,
           [db |-> db, ret |-> find(db.table, key)])

\* Database::setObject (declared in store/Database.h; its body is not among
\* the sources): insert or overwrite without touching the TTL.
setObject(db, key, obj) == [db EXCEPT !.table = htSet(@, key, obj)]

\* A write to entry->value through the pointer findEntry returned.
storeValue(db, key, value) ==
    [db EXCEPT !.table =
         storeEntry(@, key, [find(db.table, key).entry EXCEPT !.value = value])]


\* ------------------------------------------------------------------------
\* Skiplist (store/Skiplist.cpp), seen through its level-0 chain: the
\* sequence of (member, score) nodes from header_->forward[0] on.  The
\* higher levels only shorten the walk to a position of that chain.
\* ------------------------------------------------------------------------

\* std::string operator< : lexicographic on the bytes.
RECURSIVE LexLess(_, _, _)
LexLess(a, b, i) ==
    IF i > Len(b) THEN FALSE
    ELSE IF i > Len(a) THEN TRUE
    ELSE IF a[i] # b[i] THEN Ord(a[i]) < Ord(b[i])
    ELSE LexLess(a, b, i + 1)

\* The scores of the model are the doubles that are integers of a few
\* digits, and the double NaN, which std::strtod answers for "nan".  NaN is
\* held as an integer none of the others reaches; the comparisons of
\* doubles go through fEq and fLess, which are false whenever an operand is
\* NaN (so that s != s holds of NaN).  With a NaN in the chain the node a
\* walk ends at may depend on the levels of the nodes; the model takes the
\* walk of a skiplist whose nodes all have one level.
NaN == 0 - 1000000
fEq(a, b) == a # NaN /\ b # NaN /\ a = b
fLess(a, b) == a # NaN /\ b # NaN /\ a < b

\* Skiplist::lessThan
lessThan(s1, m1, s2, m2) ==
    IF ~fEq(s1, s2) THEN fLess(s1, s2) ELSE LexLess(m1, m2, 1)

\* Number of nodes the walk of insert/remove/find passes: those less than
\* (score, member).
RECURSIVE slWalk(_, _, _, _)
slWalk(sl, member, score, n) ==
    IF n < Len(sl) /\ lessThan(sl[n + 1].score, sl[n + 1].member, score, member)
    THEN slWalk(sl, member, score, n + 1)
    ELSE n

\* Skiplist::insert
slInsert(sl, member, score) ==
    LET n == slWalk(sl, member, score, 0)
    IN  SubSeq(sl, 1, n) \o <<[member |-> member, score |-> score]>>
        \o SubSeq(sl, n + 1, Len(sl))

\* Skiplist::remove
slRemove(sl, member, score) ==
    LET n == slWalk(sl, member, score, 0)
    IN  IF n >= Len(sl) \/ ~fEq(sl[n + 1].score, score)
           \/ sl[n + 1].member # member
        THEN sl
        ELSE RemoveAt(sl, n + 1)

\* Skiplist::rangeByRank
rangeByRank(sl, start0, stop0) ==
    LET n      == Len(sl)
        start1 == IF start0 < 0 THEN start0 + n ELSE start0
        stop1  == IF stop0 < 0 THEN stop0 + n ELSE stop0
        start  == IF start1 < 0 THEN 0 ELSE start1
        stop   == IF stop1 >= n THEN n - 1 ELSE stop1
    IN  IF start > stop \/ start >= n THEN <<>>
        ELSE SubSeq(sl, start + 1, stop + 1)

\* ------------------------------------------------------------------------
\* Replies.  A handler's output is the sequence of RespSerializer calls it
\* makes on conn.outgoing(); emit turns one call into its bytes
\* (proto/RespSerializer.cpp).
\* ------------------------------------------------------------------------

SimpleString(s) == [t |-> "simple", s |-> s]
Error(msg)      == [t |-> "error", s |-> msg]
Integer(val)    == [t |-> "integer", n |-> val]
BulkString(s)   == [t |-> "bulk", s |-> s]
Null            == [t |-> "null"]
ArrayHeader(c)  == [t |-> "array", n |-> c]

\* RespSerializer::writeSimpleString
writeSimpleString(buf, s) == append(append(append(buf, <<"+">>), s), CRLF)

\* RespSerializer::writeError
writeError(buf, msg) == append(append(append(buf, <<"-">>), msg), CRLF)

\* RespSerializer::writeInteger
writeInteger(buf, val) == append(buf, <<":">> \o to_string(val) \o CRLF)

\* RespSerializer::writeBulkString
writeBulkString(buf, s) ==
    append(append(append(buf, <<"$">> \o to_string(Len(s)) \o CRLF), s), CRLF)

\* RespSerializer::writeNull
writeNull(buf) == append(buf, <<"$", "-", "1">> \o CRLF)

\* RespSerializer::writeArrayHeader
writeArrayHeader(buf, count) == append(buf, <<"*">> \o to_string(count) \o CRLF)

emit(buf, tok) ==
    CASE tok.t = "simple"  -> writeSimpleString(buf, tok.s)
      [] tok.t = "error"   -> writeError(buf, tok.s)
      [] tok.t = "integer" -> writeInteger(buf, tok.n)
      [] tok.t = "bulk"    -> writeBulkString(buf, tok.s)
      [] tok.t = "null"    -> writeNull(buf)
      [] tok.t = "array"   -> writeArrayHeader(buf, tok.n)

RECURSIVE emitAll(_, _, _)
emitAll(buf, toks, i) ==
    IF i > Len(toks) THEN buf ELSE emitAll(emit(buf, toks[i]), toks, i + 1)

\* ------------------------------------------------------------------------
\* String literals of the command layer, as byte-strings.
\* ------------------------------------------------------------------------

WRONGTYPE ==
    <<"W","R","O","N","G","T","Y","P","E"," ","O","p","e","r","a","t","i",
      "o","n"," ","a","g","a","i","n","s","t"," ","a"," ","k","e","y"," ",
      "h","o","l","d","i","n","g"," ","t","h","e"," ","w","r","o","n","g",
      " ","k","i","n","d"," ","o","f"," ","v","a","l","u","e">>

ErrUnknownPrefix ==
    <<"E","R","R"," ","u","n","k","n","o","w","n"," ","c","o","m","m","a",
      "n","d"," ","'">>

ErrArityPrefix ==
    <<"E","R","R"," ","w","r","o","n","g"," ","n","u","m","b","e","r"," ",
      "o","f"," ","a","r","g","u","m","e","n","t","s"," ","f","o","r"," ",
      "'">>

ErrAritySuffix ==
    <<"'"," ","c","o","m","m","a","n","d">>

ErrNotInteger ==
    <<"E","R","R"," ","v","a","l","u","e"," ","i","s"," ","n","o","t"," ",
      "a","n"," ","i","n","t","e","g","e","r"," ","o","r"," ","o","u","t",
      " ","o","f"," ","r","a","n","g","e">>

ErrZAddArity ==
    <<"E","R","R"," ","w","r","o","n","g"," ","n","u","m","b","e","r"," ",
      "o","f"," ","a","r","g","u","m","e","n","t","s"," ","f","o","r"," ",
      "'","z","a","d","d","'"," ","c","o","m","m","a","n","d">>

ErrHSetArity ==
    <<"E","R","R"," ","w","r","o","n","g"," ","n","u","m","b","e","r"," ",
      "o","f"," ","a","r","g","u","m","e","n","t","s"," ","f","o","r"," ",
      "'","h","s","e","t","'"," ","c","o","m","m","a","n","d">>

ErrSyntax ==
    <<"E","R","R"," ","s","y","n","t","a","x"," ","e","r","r","o","r">>

PONG ==
    <<"P","O","N","G">>

OK ==
    <<"O","K">>

WITHSCORES ==
    <<"W","I","T","H","S","C","O","R","E","S">>

\* Registered command names.
nPING == <<"P", "I", "N", "G">>
nSET == <<"S", "E", "T">>
nGET == <<"G", "E", "T">>
nDEL == <<"D", "E", "L">>
nEXISTS == <<"E", "X", "I", "S", "T", "S">>
nKEYS == <<"K", "E", "Y", "S">>
nEXPIRE == <<"E", "X", "P", "I", "R", "E">>
nTTL == <<"T", "T", "L">>
nPEXPIRE == <<"P", "E", "X", "P", "I", "R", "E">>
nPTTL == <<"P", "T", "T", "L">>
nDBSIZE == <<"D", "B", "S", "I", "Z", "E">>
nLPUSH == <<"L", "P", "U", "S", "H">>
nRPUSH == <<"R", "P", "U", "S", "H">>
nLPOP == <<"L", "P", "O", "P">>
nRPOP == <<"R", "P", "O", "P">>
nLLEN == <<"L", "L", "E", "N">>
nLRANGE == <<"L", "R", "A", "N", "G", "E">>
nHSET == <<"H", "S", "E", "T">>
nHGET == <<"H", "G", "E", "T">>
nHDEL == <<"H", "D", "E", "L">>
nHGETALL == <<"H", "G", "E", "T", "A", "L", "L">>
nHLEN == <<"H", "L", "E", "N">>
nSADD == <<"S", "A", "D", "D">>
nSREM == <<"S", "R", "E", "M">>
nSISMEMBER == <<"S", "I", "S", "M", "E", "M", "B", "E", "R">>
nSMEMBERS == <<"S", "M", "E", "M", "B", "E", "R", "S">>
nSCARD == <<"S", "C", "A", "R", "D">>
nZADD == <<"Z", "A", "D", "D">>
nZSCORE == <<"Z", "S", "C", "O", "R", "E">>
nZRANK == <<"Z", "R", "A", "N", "K">>
nZRANGE == <<"Z", "R", "A", "N", "G", "E">>
nZCARD == <<"Z", "C", "A", "R", "D">>
nZREM == <<"Z", "R", "E", "M">>

\* ------------------------------------------------------------------------
\* Command handlers.  Each takes the database, the clock reading and the
\* argument vector, and yields the database afterwards, the serializer calls
\* made on conn.outgoing(), and whether an exception left the handler.
\* ------------------------------------------------------------------------

Ret(db, out) == [db |-> db, out |-> out, threw |-> FALSE]
Throw(db, out) == [db |-> db, out |-> out, threw |-> TRUE]

\* StringCommands::cmdPing
cmdPing(db, now, args) ==
    IF Len(args) = 1 THEN Ret(db, <<SimpleString(PONG)>>)
    ELSE Ret(db, <<BulkString(args[2])>>)

\* StringCommands::cmdSet
cmdSet(db, now, args) == Ret(dbSet(db, args[2], args[3]), <<SimpleString(OK)>>)

\* StringCommands::cmdGet once db.findEntry(key) has answered f.
getReply(f) ==
    IF ~f.ret.found THEN Ret(f.db, <<Null>>)
    ELSE IF f.ret.entry.value.type # "STRING" THEN Ret(f.db, <<Error(WRONGTYPE)>>)
    ELSE Ret(f.db, <<BulkString(asString(f.ret.entry.value))>>)

\* StringCommands::cmdGet
cmdGet(db, now, args) == getReply(findEntry(db, now, args[2]))

\* parseInteger of cmd/KeyCommands.cpp
parseInteger(s) ==
    IF s = <<>> \/ strtoll(s).end # Len(s) THEN [ok |-> FALSE, out |-> 0]
    ELSE [ok |-> TRUE, out |-> strtoll(s).val]

RECURSIVE delLoop(_, _, _, _)
\* The loop body of KeyCommands::cmdDel once db.del(args[i]) has answered d.
delCounted(d, args, i, count) ==
    delLoop(d.db, args, i + 1, IF d.ret THEN count + 1 ELSE count)

\* The loop of KeyCommands::cmdDel over the keys.
delLoop(db, args, i, count) ==
    IF i > Len(args) THEN Ret(db, <<Integer(count)>>)
    ELSE delCounted(dbDel(db, args[i]), args, i, count)

\* KeyCommands::cmdDel
cmdDel(db, now, args) == delLoop(db, args, 2, 0)

RECURSIVE existsLoop(_, _, _, _, _)
\* The loop body of KeyCommands::cmdExists once db.exists(args[i]) answered d.
existsCounted(d, now, args, i, count) ==
    existsLoop(d.db, now, args, i + 1, IF d.ret THEN count + 1 ELSE count)

\* The loop of KeyCommands::cmdExists over the keys.
existsLoop(db, now, args, i, count) ==
    IF i > Len(args) THEN Ret(db, <<Integer(count)>>)
    ELSE existsCounted(dbExists(db, now, args[i]), now, args, i, count)

\* KeyCommands::cmdExists
cmdExists(db, now, args) == existsLoop(db, now, args, 2, 0)

Bulks(seq) == [j \in 1..Len(seq) |-> BulkString(seq[j])]

\* KeyCommands::cmdKeys once db.keys() has answered k.
keysReply(k) == Ret(k.db, <<ArrayHeader(Len(k.ret))>> \o Bulks(k.ret))

\* KeyCommands::cmdKeys
cmdKeys(db, now, args) == keysReply(dbKeys(db))

\* KeyCommands::cmdExpire and cmdPexpire once db.setExpire has answered r.
expireReply(r) == Ret(r.db, <<Integer(IF r.ret THEN 1 ELSE 0)>>)

\* KeyCommands::cmdExpire
cmdExpire(db, now, args) ==
    IF ~parseInteger(args[3]).ok THEN Ret(db, <<Error(ErrNotInteger)>>)
    ELSE expireReply(setExpire(db, now, args[2],
                               now + (parseInteger(args[3]).out * 1000)))

\* int64 division, which truncates toward zero.
TruncDiv(a, b) == IF a >= 0 THEN a \div b ELSE 0 - ((0 - a) \div b)

\* KeyCommands::cmdTtl once db.ttl(key) has answered r.
ttlReply(r) ==
    IF r.ret = -1 \/ r.ret = -2 THEN Ret(r.db, <<Integer(r.ret)>>)
    ELSE Ret(r.db, <<Integer(TruncDiv(r.ret, 1000))>>)

\* KeyCommands::cmdTtl
cmdTtl(db, now, args) == ttlReply(ttl(db, now, now, args[2]))

\* KeyCommands::cmdPexpire
cmdPexpire(db, now, args) ==
    IF ~parseInteger(args[3]).ok THEN Ret(db, <<Error(ErrNotInteger)>>)
    ELSE expireReply(setExpire(db, now, args[2], now + parseInteger(args[3]).out))

\* KeyCommands::cmdPttl once db.ttl(key) has answered r.
pttlReply(r) == Ret(r.db, <<Integer(r.ret)>>)

\* KeyCommands::cmdPttl
cmdPttl(db, now, args) == pttlReply(ttl(db, now, now, args[2]))

\* KeyCommands::cmdDbsize
cmdDbsize(db, now, args) == Ret(db, <<Integer(dbsize(db))>>)

\* The entry a container handler writes to after findEntry answered f: f's
\* own, or for a missing key the one setObject(key, fresh) followed by
\* findEntry again gives.
entryOrCreate(f, now, key, fresh) ==
    IF f.ret.found THEN f
    ELSE findEntry(setObject(f.db, key, fresh), now, key)

\* A handler that leaves the container in place when it has become empty.
delIfEmpty_keep(db1, key, empty) == db1

\* The end of a handler that removes elements: the container is written
\* back, and db.del(key) follows when it has become empty.
delIfEmpty(db1, key, empty) == IF empty THEN dbDel(db1, key).db ELSE db1

Reverse(seq) == [j \in 1..Len(seq) |-> seq[Len(seq) + 1 - j]]

\* ListCommands::cmdLPush and cmdRPush: the list g holds becomes `list`.
pushInto(g, key, list) ==
    Ret(storeValue(g.db, key, [g.ret.entry.value EXCEPT !.data.list = list]),
        <<Integer(Len(list))>>)

\* ListCommands::cmdLPush on the entry g.
lpushInto(g, args) ==
    pushInto(g, args[2],
             Reverse(SubSeq(args, 3, Len(args))) \o g.ret.entry.value.data.list)

\* ListCommands::cmdLPush once db.findEntry(key) has answered f.
lpushOn(f, now, args) ==
    IF f.ret.found /\ f.ret.entry.value.type # "LIST"
    THEN Ret(f.db, <<Error(WRONGTYPE)>>)
    ELSE lpushInto(entryOrCreate(f, now, args[2], createList), args)

\* ListCommands::cmdLPush
cmdLPush(db, now, args) == lpushOn(findEntry(db, now, args[2]), now, args)

\* ListCommands::cmdRPush on the entry g.
rpushInto(g, args) ==
    pushInto(g, args[2],
             g.ret.entry.value.data.list \o SubSeq(args, 3, Len(args)))

\* ListCommands::cmdRPush once db.findEntry(key) has answered f.
rpushOn(f, now, args) ==
    IF f.ret.found /\ f.ret.entry.value.type # "LIST"
    THEN Ret(f.db, <<Error(WRONGTYPE)>>)
    ELSE rpushInto(entryOrCreate(f, now, args[2], createList), args)

\* ListCommands::cmdRPush
cmdRPush(db, now, args) == rpushOn(findEntry(db, now, args[2]), now, args)

\* ListCommands::cmdLPop and cmdRPop: `rest` stays in the list of f's entry
\* and `popped` is the reply.
popFrom(f, key, rest, popped) ==
    Ret(delIfEmpty(storeValue(f.db, key,
                              [f.ret.entry.value EXCEPT !.data.list = rest]),
                   key, rest = <<>>),
        <<BulkString(popped)>>)

\* ListCommands::cmdLPop once db.findEntry(key) has answered f.
lpopOn(f, key) ==
    IF ~f.ret.found THEN Ret(f.db, <<Null>>)
    ELSE IF f.ret.entry.value.type # "LIST" THEN Ret(f.db, <<Error(WRONGTYPE)>>)
    ELSE IF f.ret.entry.value.data.list = <<>> THEN Ret(f.db, <<Null>>)
    ELSE popFrom(f, key, Tail(f.ret.entry.value.data.list),
                 Head(f.ret.entry.value.data.list))

\* ListCommands::cmdLPop
cmdLPop(db, now, args) == lpopOn(findEntry(db, now, args[2]), args[2])

\* ListCommands::cmdRPop once db.findEntry(key) has answered f.
rpopOn(f, key) ==
    IF ~f.ret.found THEN Ret(f.db, <<Null>>)
    ELSE IF f.ret.entry.value.type # "LIST" THEN Ret(f.db, <<Error(WRONGTYPE)>>)
    ELSE IF f.ret.entry.value.data.list = <<>> THEN Ret(f.db, <<Null>>)
    ELSE popFrom(f, key,
                 SubSeq(f.ret.entry.value.data.list, 1,
                        Len(f.ret.entry.value.data.list) - 1),
                 f.ret.entry.value.data.list[Len(f.ret.entry.value.data.list)])

\* ListCommands::cmdRPop
cmdRPop(db, now, args) == rpopOn(findEntry(db, now, args[2]), args[2])

\* ListCommands::cmdLLen once db.findEntry(key) has answered f.
llenOn(f) ==
    IF ~f.ret.found THEN Ret(f.db, <<Integer(0)>>)
    ELSE IF f.ret.entry.value.type # "LIST" THEN Ret(f.db, <<Error(WRONGTYPE)>>)
    ELSE Ret(f.db, <<Integer(Len(f.ret.entry.value.data.list))>>)

\* ListCommands::cmdLLen
cmdLLen(db, now, args) == llenOn(findEntry(db, now, args[2]))

\* std::stoi: converts like strtoll and ignores what follows the digits; it
\* throws std::invalid_argument when no conversion can be made.
stoi(s) == [threw |-> strtoll(s).end = 0, val |-> strtoll(s).val]

\* ListCommands::cmdLRange, the index arithmetic on a list of n elements.
lrangeSlice(list, n, start1, stop1) ==
    LET start == IF start1 < 0 THEN 0 ELSE start1
        stop  == IF stop1 >= n THEN n - 1 ELSE stop1
    IN  IF start > stop \/ start >= n THEN <<ArrayHeader(0)>>
        ELSE <<ArrayHeader((stop - start) + 1)>>
             \o Bulks(SubSeq(list, start + 1, stop + 1))

\* ListCommands::cmdLRange once db.findEntry(key) has answered f.
lrangeOn(f, args) ==
    IF ~f.ret.found THEN Ret(f.db, <<ArrayHeader(0)>>)
    ELSE IF f.ret.entry.value.type # "LIST" THEN Ret(f.db, <<Error(WRONGTYPE)>>)
    ELSE IF stoi(args[3]).threw \/ stoi(args[4]).threw THEN Throw(f.db, <<>>)
    ELSE Ret(f.db,
             lrangeSlice(f.ret.entry.value.data.list,
                         Len(f.ret.entry.value.data.list),
                         IF stoi(args[3]).val < 0
                         THEN stoi(args[3]).val + Len(f.ret.entry.value.data.list)
                         ELSE stoi(args[3]).val,
                         IF stoi(args[4]).val < 0
                         THEN stoi(args[4]).val + Len(f.ret.entry.value.data.list)
                         ELSE stoi(args[4]).val))

\* ListCommands::cmdLRange
cmdLRange(db, now, args) == lrangeOn(findEntry(db, now, args[2]), args)

\* The members of an unordered container in the order a traversal yields
\* them.  The order of std::unordered_set / std::unordered_map is unspecified;
\* the model fixes the byte-wise ascending one.
RECURSIVE Traverse(_)
Traverse(S) ==
    IF S = {} THEN <<>>
    ELSE LET m == CHOOSE y \in S : \A z \in S \ {y} : LexLess(y, z, 1)
         IN  <<m>> \o Traverse(S \ {m})

Range(seq) == {seq[j] : j \in 1..Len(seq)}

\* SetCommands::cmdSAdd on the entry g, whose set is old and becomes new.
saddInto(g, key, old, new) ==
    Ret(storeValue(g.db, key, [g.ret.entry.value EXCEPT !.data.set = new]),
        <<Integer(Cardinality(new) - Cardinality(old))>>)

\* SetCommands::cmdSAdd on the entry g.
saddOnEntry(g, args) ==
    saddInto(g, args[2], g.ret.entry.value.data.set,
             g.ret.entry.value.data.set \cup Range(SubSeq(args, 3, Len(args))))

\* SetCommands::cmdSAdd once db.findEntry(key) has answered f.
saddOn(f, now, args) ==
    IF f.ret.found /\ f.ret.entry.value.type # "SET"
    THEN Ret(f.db, <<Error(WRONGTYPE)>>)
    ELSE saddOnEntry(entryOrCreate(f, now, args[2], createSet), args)

\* SetCommands::cmdSAdd
cmdSAdd(db, now, args) == saddOn(findEntry(db, now, args[2]), now, args)

\* SetCommands::cmdSRem on f's entry, whose set is old and becomes new.
sremFrom(f, key, old, new) ==
    Ret(delIfEmpty(storeValue(f.db, key,
                              [f.ret.entry.value EXCEPT !.data.set = new]),
                   key, new = {}),
        <<Integer(Cardinality(old) - Cardinality(new))>>)

\* SetCommands::cmdSRem once db.findEntry(key) has answered f.
sremOn(f, args) ==
    IF ~f.ret.found THEN Ret(f.db, <<Integer(0)>>)
    ELSE IF f.ret.entry.value.type # "SET" THEN Ret(f.db, <<Error(WRONGTYPE)>>)
    ELSE sremFrom(f, args[2], f.ret.entry.value.data.set,
                  f.ret.entry.value.data.set \ Range(SubSeq(args, 3, Len(args))))

\* SetCommands::cmdSRem
cmdSRem(db, now, args) == sremOn(findEntry(db, now, args[2]), args)

\* SetCommands::cmdSIsMember once db.findEntry(key) has answered f.
sismemberOn(f, args) ==
    IF ~f.ret.found THEN Ret(f.db, <<Integer(0)>>)
    ELSE IF f.ret.entry.value.type # "SET" THEN Ret(f.db, <<Error(WRONGTYPE)>>)
    ELSE Ret(f.db, <<Integer(IF args[3] \in f.ret.entry.value.data.set
                             THEN 1 ELSE 0)>>)

\* SetCommands::cmdSIsMember
cmdSIsMember(db, now, args) == sismemberOn(findEntry(db, now, args[2]), args)

\* SetCommands::cmdSMembers once db.findEntry(key) has answered f.
smembersOn(f) ==
    IF ~f.ret.found THEN Ret(f.db, <<ArrayHeader(0)>>)
    ELSE IF f.ret.entry.value.type # "SET" THEN Ret(f.db, <<Error(WRONGTYPE)>>)
    ELSE Ret(f.db, <<ArrayHeader(Cardinality(f.ret.entry.value.data.set))>>
                   \o Bulks(Traverse(f.ret.entry.value.data.set)))

\* SetCommands::cmdSMembers
cmdSMembers(db, now, args) == smembersOn(findEntry(db, now, args[2]))

\* SetCommands::cmdSCard once db.findEntry(key) has answered f.
scardOn(f) ==
    IF ~f.ret.found THEN Ret(f.db, <<Integer(0)>>)
    ELSE IF f.ret.entry.value.type # "SET" THEN Ret(f.db, <<Error(WRONGTYPE)>>)
    ELSE Ret(f.db, <<Integer(Cardinality(f.ret.entry.value.data.set))>>)

\* SetCommands::cmdSCard
cmdSCard(db, now, args) == scardOn(findEntry(db, now, args[2]))

\* std::strtod on the score arguments of the model, which are decimal
\* integers or, in any case of the letters and after white space and a
\* sign, "nan"; formatScore ("%.17g") prints an integer score without a
\* fraction and NaN as "nan".
IsNanText(s, i) ==
    /\ i + 2 <= Len(s)
    /\ ToUpperStr(SubSeq(s, i, i + 2)) = <<"N", "A", "N">>

strtod(s) ==
    LET i == SkipSpace(s, 1)
        j == IF i <= Len(s) /\ s[i] \in {"-", "+"} THEN i + 1 ELSE i
    IN  IF IsNanText(s, j) THEN NaN ELSE strtoll(s).val

formatScore(score) == IF score = NaN THEN <<"n", "a", "n">> ELSE to_string(score)

\* std::get<ZSetData>(entry->value.data) and the write back through it.
zsetOf(obj) == [skiplist |-> obj.data.skiplist, dict |-> obj.data.dict]
withZSet(obj, zset) ==
    [obj EXCEPT !.data.skiplist = zset.skiplist, !.data.dict = zset.dict]

RECURSIVE zaddLoop(_, _, _, _)
\* The loop body of ZSetCommands::cmdZAdd for one (score, member) pair.
zaddPair(zset, args, i, added, score, member) ==
    IF member \in DOMAIN zset.dict
    THEN IF ~fEq(zset.dict[member], score)
         THEN zaddLoop([skiplist |-> slInsert(slRemove(zset.skiplist, member,
                                                       zset.dict[member]),
                                              member, score),
                        dict |-> MapPut(zset.dict, member, score)],
                       args, i + 2, added)
         ELSE zaddLoop(zset, args, i + 2, added)
    ELSE zaddLoop([skiplist |-> slInsert(zset.skiplist, member, score),
                   dict |-> MapPut(zset.dict, member, score)],
                  args, i + 2, added + 1)

\* The loop of ZSetCommands::cmdZAdd over the (score, member) pairs.
zaddLoop(zset, args, i, added) ==
    IF i > Len(args) THEN [zset |-> zset, added |-> added]
    ELSE zaddPair(zset, args, i, added, strtod(args[i]), args[i + 1])

\* ZSetCommands::cmdZAdd on the entry g once the loop has answered z.
zaddStore(g, key, z) ==
    Ret(storeValue(g.db, key, withZSet(g.ret.entry.value, z.zset)),
        <<Integer(z.added)>>)

\* ZSetCommands::cmdZAdd on the entry g.
zaddInto(g, args) ==
    zaddStore(g, args[2], zaddLoop(zsetOf(g.ret.entry.value), args, 3, 0))

\* ZSetCommands::cmdZAdd once db.findEntry(key) has answered f.
zaddOn(f, now, args) ==
    IF f.ret.found /\ f.ret.entry.value.type # "ZSET"
    THEN Ret(f.db, <<Error(WRONGTYPE)>>)
    ELSE zaddInto(entryOrCreate(f, now, args[2], createZSet), args)

\* ZSetCommands::cmdZAdd
cmdZAdd(db, now, args) ==
    IF (Len(args) - 2) % 2 # 0 THEN Ret(db, <<Error(ErrZAddArity)>>)
    ELSE zaddOn(findEntry(db, now, args[2]), now, args)

\* ZSetCommands::cmdZScore once db.findEntry(key) has answered f.
zscoreOn(f, args) ==
    IF ~f.ret.found THEN Ret(f.db, <<Null>>)
    ELSE IF f.ret.entry.value.type # "ZSET" THEN Ret(f.db, <<Error(WRONGTYPE)>>)
    ELSE IF args[3] \notin DOMAIN f.ret.entry.value.data.dict
    THEN Ret(f.db, <<Null>>)
    ELSE Ret(f.db, <<BulkString(formatScore(f.ret.entry.value.data.dict[args[3]]))>>)

\* ZSetCommands::cmdZScore
cmdZScore(db, now, args) == zscoreOn(findEntry(db, now, args[2]), args)

\* ZSetCommands::cmdZRank, the walk over rangeByRank(0, size - 1).
zrankIn(db, range, member, score) ==
    LET hits == {j \in 1..Len(range) :
                    range[j].member = member /\ fEq(range[j].score, score)}
    IN  IF hits = {} THEN Ret(db, <<Null>>)
        ELSE Ret(db, <<Integer(Min(hits) - 1)>>)

\* ZSetCommands::cmdZRank once db.findEntry(key) has answered f.
zrankOn(f, args) ==
    IF ~f.ret.found THEN Ret(f.db, <<Null>>)
    ELSE IF f.ret.entry.value.type # "ZSET" THEN Ret(f.db, <<Error(WRONGTYPE)>>)
    ELSE IF args[3] \notin DOMAIN f.ret.entry.value.data.dict
    THEN Ret(f.db, <<Null>>)
    ELSE zrankIn(f.db,
                 rangeByRank(f.ret.entry.value.data.skiplist, 0,
                             Len(f.ret.entry.value.data.skiplist) - 1),
                 args[3], f.ret.entry.value.data.dict[args[3]])

\* ZSetCommands::cmdZRank
cmdZRank(db, now, args) == zrankOn(findEntry(db, now, args[2]), args)

RECURSIVE WithScores(_, _)
WithScores(range, j) ==
    IF j > Len(range) THEN <<>>
    ELSE <<BulkString(range[j].member), BulkString(formatScore(range[j].score))>>
         \o WithScores(range, j + 1)

\* ZSetCommands::cmdZRange, the reply for the result of rangeByRank.
zrangeReply(db, result, withScores) ==
    IF withScores
    THEN Ret(db, <<ArrayHeader(Len(result) * 2)>> \o WithScores(result, 1))
    ELSE Ret(db, <<ArrayHeader(Len(result))>>
                 \o [j \in 1..Len(result) |-> BulkString(result[j].member)])

\* ZSetCommands::cmdZRange once db.findEntry(key) has answered f.
zrangeOn(f, args) ==
    IF ~f.ret.found THEN Ret(f.db, <<ArrayHeader(0)>>)
    ELSE IF f.ret.entry.value.type # "ZSET" THEN Ret(f.db, <<Error(WRONGTYPE)>>)
    ELSE IF stoi(args[3]).threw \/ stoi(args[4]).threw THEN Throw(f.db, <<>>)
    ELSE zrangeReply(f.db,
                     rangeByRank(zsetOf(f.ret.entry.value).skiplist,
                                 stoi(args[3]).val, stoi(args[4]).val),
                     Len(args) = 5)

\* ZSetCommands::cmdZRange
cmdZRange(db, now, args) ==
    IF Len(args) = 5 /\ ToUpperStr(args[5]) # WITHSCORES
    THEN Ret(db, <<Error(ErrSyntax)>>)
    ELSE zrangeOn(findEntry(db, now, args[2]), args)

\* ZSetCommands::cmdZCard once db.findEntry(key) has answered f.
zcardOn(f) ==
    IF ~f.ret.found THEN Ret(f.db, <<Integer(0)>>)
    ELSE IF f.ret.entry.value.type # "ZSET" THEN Ret(f.db, <<Error(WRONGTYPE)>>)
    ELSE Ret(f.db, <<Integer(Len(zsetOf(f.ret.entry.value).skiplist))>>)

\* ZSetCommands::cmdZCard
cmdZCard(db, now, args) == zcardOn(findEntry(db, now, args[2]))

\* The loop of ZSetCommands::cmdZRem over the members.
RECURSIVE zremLoop(_, _, _, _)
zremLoop(zset, args, i, removed) ==
    IF i > Len(args) THEN [zset |-> zset, removed |-> removed]
    ELSE IF args[i] \in DOMAIN zset.dict
    THEN zremLoop([skiplist |-> slRemove(zset.skiplist, args[i], zset.dict[args[i]]),
                   dict |-> MapErase(zset.dict, args[i])],
                  args, i + 1, removed + 1)
    ELSE zremLoop(zset, args, i + 1, removed)

\* ZSetCommands::cmdZRem on f's entry once the loop has answered z.
zremStore(f, key, z) ==
    Ret(delIfEmpty(storeValue(f.db, key, withZSet(f.ret.entry.value, z.zset)),
                   key, DOMAIN z.zset.dict = {}),
        <<Integer(z.removed)>>)

\* ZSetCommands::cmdZRem once db.findEntry(key) has answered f.
zremOn(f, args) ==
    IF ~f.ret.found THEN Ret(f.db, <<Integer(0)>>)
    ELSE IF f.ret.entry.value.type # "ZSET" THEN Ret(f.db, <<Error(WRONGTYPE)>>)
    ELSE zremStore(f, args[2], zremLoop(zsetOf(f.ret.entry.value), args, 3, 0))

\* ZSetCommands::cmdZRem
cmdZRem(db, now, args) == zremOn(findEntry(db, now, args[2]), args)

\* ------------------------------------------------------------------------
\* Hash commands (HashCommands.cpp, whose text follows cmd/KeyCommands.h).
\* The order in which HGETALL walks std::unordered_map is unspecified; the
\* model fixes the byte-wise ascending one.
\* ------------------------------------------------------------------------

RECURSIVE hsetLoop(_, _, _, _)
\* The emplace loop of HashCommands::cmdHSet from args[i] on.
hsetLoop(hash_, args, i, added) ==
    IF i + 1 > Len(args) THEN [hash |-> hash_, added |-> added]
    ELSE hsetLoop(MapPut(hash_, args[i], args[i + 1]), args, i + 2,
                  IF args[i] \in DOMAIN hash_ THEN added ELSE added + 1)

\* HashCommands::cmdHSet on the entry g once the loop has answered h.
hsetStore(g, key, h) ==
    Ret(storeValue(g.db, key, [g.ret.entry.value EXCEPT !.data.hash = h.hash]),
        <<Integer(h.added)>>)

\* HashCommands::cmdHSet on the entry g, found or just created.
hsetInto(g, args) ==
    hsetStore(g, args[2], hsetLoop(g.ret.entry.value.data.hash, args, 3, 0))

\* HashCommands::cmdHSet once db.findEntry(key) has answered f.
hsetOn(f, now, args) ==
    IF f.ret.found /\ f.ret.entry.value.type # "HASH"
    THEN Ret(f.db, <<Error(WRONGTYPE)>>)
    ELSE hsetInto(entryOrCreate(f, now, args[2], createHash), args)

\* HashCommands::cmdHSet
cmdHSet(db, now, args) ==
    IF (Len(args) - 2) % 2 # 0 THEN Ret(db, <<Error(ErrHSetArity)>>)
    ELSE hsetOn(findEntry(db, now, args[2]), now, args)

\* HashCommands::cmdHGet once db.findEntry(key) has answered f.
hgetOn(f, args) ==
    IF ~f.ret.found THEN Ret(f.db, <<Null>>)
    ELSE IF f.ret.entry.value.type # "HASH" THEN Ret(f.db, <<Error(WRONGTYPE)>>)
    ELSE IF args[3] \notin DOMAIN f.ret.entry.value.data.hash
    THEN Ret(f.db, <<Null>>)
    ELSE Ret(f.db, <<BulkString(f.ret.entry.value.data.hash[args[3]])>>)

\* HashCommands::cmdHGet
cmdHGet(db, now, args) == hgetOn(findEntry(db, now, args[2]), args)

\* HashCommands::cmdHDel on f's hash `old`, of which the fields `gone` are
\* erased.
hdelFrom(f, key, old, gone) ==
    Ret(delIfEmpty(storeValue(f.db, key,
                              [f.ret.entry.value EXCEPT !.data.hash =
                                   [y \in (DOMAIN old) \ gone |-> old[y]]]),
                   key, (DOMAIN old) \ gone = {}),
        <<Integer(Cardinality(gone))>>)

\* HashCommands::cmdHDel once db.findEntry(key) has answered f.
hdelOn(f, args) ==
    IF ~f.ret.found THEN Ret(f.db, <<Integer(0)>>)
    ELSE IF f.ret.entry.value.type # "HASH" THEN Ret(f.db, <<Error(WRONGTYPE)>>)
    ELSE hdelFrom(f, args[2], f.ret.entry.value.data.hash,
                  (DOMAIN f.ret.entry.value.data.hash)
                      \cap Range(SubSeq(args, 3, Len(args))))

\* HashCommands::cmdHDel
cmdHDel(db, now, args) == hdelOn(findEntry(db, now, args[2]), args)

RECURSIVE FieldsAndValues(_, _, _)
FieldsAndValues(hash_, fields, j) ==
    IF j > Len(fields) THEN <<>>
    ELSE <<BulkString(fields[j]), BulkString(hash_[fields[j]])>>
         \o FieldsAndValues(hash_, fields, j + 1)

\* HashCommands::cmdHGetAll once db.findEntry(key) has answered f.
hgetallOn(f) ==
    IF ~f.ret.found THEN Ret(f.db, <<ArrayHeader(0)>>)
    ELSE IF f.ret.entry.value.type # "HASH" THEN Ret(f.db, <<Error(WRONGTYPE)>>)
    ELSE Ret(f.db,
             <<ArrayHeader(2 * Cardinality(DOMAIN f.ret.entry.value.data.hash))>>
             \o FieldsAndValues(f.ret.entry.value.data.hash,
                                Traverse(DOMAIN f.ret.entry.value.data.hash), 1))

\* HashCommands::cmdHGetAll
cmdHGetAll(db, now, args) == hgetallOn(findEntry(db, now, args[2]))

\* HashCommands::cmdHLen once db.findEntry(key) has answered f.
hlenOn(f) ==
    IF ~f.ret.found THEN Ret(f.db, <<Integer(0)>>)
    ELSE IF f.ret.entry.value.type # "HASH" THEN Ret(f.db, <<Error(WRONGTYPE)>>)
    ELSE Ret(f.db, <<Integer(Cardinality(DOMAIN f.ret.entry.value.data.hash))>>)

\* HashCommands::cmdHLen
cmdHLen(db, now, args) == hlenOn(findEntry(db, now, args[2]))

\* ------------------------------------------------------------------------
\* CommandTable (cmd/CommandTable.cpp): the entries each registerAll
\* registers, and dispatch.
\* ------------------------------------------------------------------------

\* StringCommands::registerAll
StringCommandsRegisterAll ==
    <<[name |-> nPING, arity |-> -1, isWrite |-> FALSE, handler |-> "cmdPing"],
      [name |-> nSET, arity |-> 3, isWrite |-> TRUE, handler |-> "cmdSet"],
      [name |-> nGET, arity |-> 2, isWrite |-> FALSE, handler |-> "cmdGet"]>>

\* KeyCommands::registerAll
KeyCommandsRegisterAll ==
    <<[name |-> nDEL, arity |-> -2, isWrite |-> TRUE, handler |-> "cmdDel"],
      [name |-> nEXISTS, arity |-> -2, isWrite |-> FALSE, handler |-> "cmdExists"],
      [name |-> nKEYS, arity |-> 2, isWrite |-> FALSE, handler |-> "cmdKeys"],
      [name |-> nEXPIRE, arity |-> 3, isWrite |-> TRUE, handler |-> "cmdExpire"],
      [name |-> nTTL, arity |-> 2, isWrite |-> FALSE, handler |-> "cmdTtl"],
      [name |-> nPEXPIRE, arity |-> 3, isWrite |-> TRUE, handler |-> "cmdPexpire"],
      [name |-> nPTTL, arity |-> 2, isWrite |-> FALSE, handler |-> "cmdPttl"],
      [name |-> nDBSIZE, arity |-> 1, isWrite |-> FALSE, handler |-> "cmdDbsize"]>>

\* ListCommands::registerAll
ListCommandsRegisterAll ==
    <<[name |-> nLPUSH, arity |-> -3, isWrite |-> TRUE, handler |-> "cmdLPush"],
      [name |-> nRPUSH, arity |-> -3, isWrite |-> TRUE, handler |-> "cmdRPush"],
      [name |-> nLPOP, arity |-> 2, isWrite |-> TRUE, handler |-> "cmdLPop"],
      [name |-> nRPOP, arity |-> 2, isWrite |-> TRUE, handler |-> "cmdRPop"],
      [name |-> nLLEN, arity |-> 2, isWrite |-> FALSE, handler |-> "cmdLLen"],
      [name |-> nLRANGE, arity |-> 4, isWrite |-> FALSE, handler |-> "cmdLRange"]>>

\* SetCommands::registerAll
SetCommandsRegisterAll ==
    <<[name |-> nSADD, arity |-> -3, isWrite |-> TRUE, handler |-> "cmdSAdd"],
      [name |-> nSREM, arity |-> -3, isWrite |-> TRUE, handler |-> "cmdSRem"],
      [name |-> nSISMEMBER, arity |-> 3, isWrite |-> FALSE, handler |-> "cmdSIsMember"],
      [name |-> nSMEMBERS, arity |-> 2, isWrite |-> FALSE, handler |-> "cmdSMembers"],
      [name |-> nSCARD, arity |-> 2, isWrite |-> FALSE, handler |-> "cmdSCard"]>>

\* ZSetCommands::registerAll
ZSetCommandsRegisterAll ==
    <<[name |-> nZADD, arity |-> -4, isWrite |-> TRUE, handler |-> "cmdZAdd"],
      [name |-> nZSCORE, arity |-> 3, isWrite |-> FALSE, handler |-> "cmdZScore"],
      [name |-> nZRANK, arity |-> 3, isWrite |-> FALSE, handler |-> "cmdZRank"],
      [name |-> nZRANGE, arity |-> -4, isWrite |-> FALSE, handler |-> "cmdZRange"],
      [name |-> nZCARD, arity |-> 2, isWrite |-> FALSE, handler |-> "cmdZCard"],
      [name |-> nZREM, arity |-> -3, isWrite |-> TRUE, handler |-> "cmdZRem"]>>

\* HashCommands::registerAll
HashCommandsRegisterAll ==
    <<[name |-> nHSET, arity |-> -4, isWrite |-> TRUE, handler |-> "cmdHSet"],
      [name |-> nHGET, arity |-> 3, isWrite |-> FALSE, handler |-> "cmdHGet"],
      [name |-> nHDEL, arity |-> -3, isWrite |-> TRUE, handler |-> "cmdHDel"],
      [name |-> nHGETALL, arity |-> 2, isWrite |-> FALSE, handler |-> "cmdHGetAll"],
      [name |-> nHLEN, arity |-> 2, isWrite |-> FALSE, handler |-> "cmdHLen"]>>

\* CommandTable::CommandTable: the registerAll calls, in order.  The
\* constructor among the sources makes the first two; the build that serves
\* the list, hash, set and sorted-set commands makes the other four as well,
\* and that constructor is not among the sources.
registered ==
    StringCommandsRegisterAll \o KeyCommandsRegisterAll \o ListCommandsRegisterAll
    \o HashCommandsRegisterAll \o SetCommandsRegisterAll \o ZSetCommandsRegisterAll

\* CommandTable::registerCommand over them: table_, keyed by the upper-cased
\* name, a later registration replacing an earlier one.
table_ ==
    [nm \in {ToUpperStr(registered[j].name) : j \in 1..Len(registered)} |->
        registered[CHOOSE j \in 1..Len(registered) :
                       /\ ToUpperStr(registered[j].name) = nm
                       /\ \A l \in (j + 1)..Len(registered) :
                              ToUpperStr(registered[l].name) # nm]]

\* entry.handler(db, conn, args)
invoke(handler, db, now, args) ==
    CASE handler = "cmdPing"      -> cmdPing(db, now, args)
      [] handler = "cmdSet"       -> cmdSet(db, now, args)
      [] handler = "cmdGet"       -> cmdGet(db, now, args)
      [] handler = "cmdDel"       -> cmdDel(db, now, args)
      [] handler = "cmdExists"    -> cmdExists(db, now, args)
      [] handler = "cmdKeys"      -> cmdKeys(db, now, args)
      [] handler = "cmdExpire"    -> cmdExpire(db, now, args)
      [] handler = "cmdTtl"       -> cmdTtl(db, now, args)
      [] handler = "cmdPexpire"   -> cmdPexpire(db, now, args)
      [] handler = "cmdPttl"      -> cmdPttl(db, now, args)
      [] handler = "cmdDbsize"    -> cmdDbsize(db, now, args)
      [] handler = "cmdLPush"     -> cmdLPush(db, now, args)
      [] handler = "cmdRPush"     -> cmdRPush(db, now, args)
      [] handler = "cmdLPop"      -> cmdLPop(db, now, args)
      [] handler = "cmdRPop"      -> cmdRPop(db, now, args)
      [] handler = "cmdLLen"      -> cmdLLen(db, now, args)
      [] handler = "cmdLRange"    -> cmdLRange(db, now, args)
      [] handler = "cmdHSet"      -> cmdHSet(db, now, args)
      [] handler = "cmdHGet"      -> cmdHGet(db, now, args)
      [] handler = "cmdHDel"      -> cmdHDel(db, now, args)
      [] handler = "cmdHGetAll"   -> cmdHGetAll(db, now, args)
      [] handler = "cmdHLen"      -> cmdHLen(db, now, args)
      [] handler = "cmdSAdd"      -> cmdSAdd(db, now, args)
      [] handler = "cmdSRem"      -> cmdSRem(db, now, args)
      [] handler = "cmdSIsMember" -> cmdSIsMember(db, now, args)
      [] handler = "cmdSMembers"  -> cmdSMembers(db, now, args)
      [] handler = "cmdSCard"     -> cmdSCard(db, now, args)
      [] handler = "cmdZAdd"      -> cmdZAdd(db, now, args)
      [] handler = "cmdZScore"    -> cmdZScore(db, now, args)
      [] handler = "cmdZRank"     -> cmdZRank(db, now, args)
      [] handler = "cmdZRange"    -> cmdZRange(db, now, args)
      [] handler = "cmdZCard"     -> cmdZCard(db, now, args)
      [] handler = "cmdZRem"      -> cmdZRem(db, now, args)

\* Variant of the arity check that takes a positive arity for a minimum too.
arityViolated_min(arity, argCount) ==
    argCount < (IF arity > 0 THEN arity ELSE 0 - arity)

\* Whether dispatch rejects argCount arguments for an entry of this arity.
arityViolated(arity, argCount) ==
    IF arity > 0 THEN argCount # arity ELSE argCount < 0 - arity

\* CommandTable::dispatch once the handler has returned r.
ran(r, handler) ==
    [db |-> r.db, out |-> r.out, threw |-> r.threw, handler |-> handler]

\* CommandTable::dispatch from the lookup of the upper-cased name on.
dispatchNamed(db, now, args, cmdName) ==
    IF cmdName \notin DOMAIN table_
    THEN [db |-> db,
          out |-> <<Error(ErrUnknownPrefix \o args[1] \o <<"'">>)>>,
          threw |-> FALSE, handler |-> "none"]
    ELSE IF arityViolated(table_[cmdName].arity, Len(args))
    THEN [db |-> db,
          out |-> <<Error(ErrArityPrefix \o cmdName \o ErrAritySuffix)>>,
          threw |-> FALSE, handler |-> "none"]
    ELSE ran(invoke(table_[cmdName].handler, db, now, args),
             table_[cmdName].handler)

\* CommandTable::dispatch: the handler's result, with the handler that ran
\* ("none" when dispatch answered by itself).
dispatch(db, now, args) ==
    IF args = <<>> THEN [db |-> db, out |-> <<>>, threw |-> FALSE, handler |-> "none"]
    ELSE dispatchNamed(db, now, args, ToUpperStr(args[1]))

\* ------------------------------------------------------------------------
\* AOFWriter (persistence/AOFWriter.cpp).  fd is fd_ (-1 when the writer is
\* disabled or there is none), file the bytes of the append-only file,
\* synced how many of them an fsync has covered, temp the bytes of the
\* rewrite's temporary file and tempExists whether that file exists.  The
\* fsync policy is EVERYSEC, the default of the constructor.
\* ------------------------------------------------------------------------

\* The rewrite child: where it is ("open", "value", "ttl", "exited" or
\* "none" when there is no child), its exit status, its copy of the
\* database, the keys db.keys() gave it and the index of the key it is at.
NoChild ==
    [at |-> "none", status |-> 0, db |-> NewDatabase, keys |-> <<>>, i |-> 0]

\* No AOFWriter: nothing is logged.
NoAOF ==
    [fd |-> -1, file |-> <<>>, isRewriting |-> FALSE, rewriteBuffer |-> <<>>,
     rewriteChildPid |-> -1, temp |-> <<>>, tempExists |-> FALSE,
     synced |-> 0, child |-> NoChild]

\* AOFWriter::AOFWriter on a path that holds no file yet: open() creates it.
NewAOFWriter == [NoAOF EXCEPT !.fd = 3]

\* An AOFWriter::log that writes the file and not the rewrite buffer.
log_file(w, args) ==
    IF w.fd < 0 THEN w
    ELSE [w EXCEPT !.file = @ \o formatRespCommand(args)]

\* AOFWriter::log
log(w, args) ==
    IF w.fd < 0 THEN w
    ELSE [w EXCEPT !.file = @ \o formatRespCommand(args),
                   !.rewriteBuffer = IF w.isRewriting
                                     THEN Append(@, formatRespCommand(args))
                                     ELSE @]

\* A tick that calls fsync whether or not the writer has a file.
tick_always(w, elapsed) ==
    IF elapsed >= 1 THEN [w EXCEPT !.synced = Len(w.file)] ELSE w

\* AOFWriter::tick, elapsed seconds after the last fsync.
tick(w, elapsed) ==
    IF w.fd < 0 THEN w
    ELSE IF elapsed >= 1 THEN [w EXCEPT !.synced = Len(w.file)]
    ELSE w

RECURSIVE FieldValuePairs(_, _, _)
FieldValuePairs(hash_, fields, j) ==
    IF j > Len(fields) THEN <<>>
    ELSE <<fields[j], hash_[fields[j]]>> \o FieldValuePairs(hash_, fields, j + 1)

RECURSIVE ScoreMemberPairs(_, _)
ScoreMemberPairs(elems, j) ==
    IF j > Len(elems) THEN <<>>
    ELSE <<formatScore(elems[j].score), elems[j].member>>
         \o ScoreMemberPairs(elems, j + 1)

\* The switch of the rewrite child in AOFWriter::triggerRewrite: the command
\* that rebuilds the value of the key, <<>> when it writes none.
snapshotCommand(key, value) ==
    CASE value.type = "STRING" -> <<nSET, key, asString(value)>>
      [] value.type = "LIST" ->
             IF value.data.list # <<>> THEN <<nRPUSH, key>> \o value.data.list
             ELSE <<>>
      [] value.type = "HASH" ->
             IF DOMAIN value.data.hash # {}
             THEN <<nHSET, key>>
                  \o FieldValuePairs(value.data.hash, Traverse(DOMAIN value.data.hash), 1)
             ELSE <<>>
      [] value.type = "SET" ->
             IF value.data.set # {} THEN <<nSADD, key>> \o Traverse(value.data.set)
             ELSE <<>>
      [] value.type = "ZSET" ->
             IF DOMAIN value.data.dict # {}
             THEN <<nZADD, key>>
                  \o ScoreMemberPairs(rangeByRank(value.data.skiplist, 0,
                                                  Len(value.data.skiplist) - 1), 1)
             ELSE <<>>

\* AOFWriter::writeRespCommand on the temporary file, for a command the
\* child has (cmd is <<>> when the switch wrote none).
writeRespCommand(temp, cmd) ==
    IF cmd = <<>> THEN temp ELSE temp \o formatRespCommand(cmd)

\* A triggerRewrite that forks whether or not a rewrite is in flight.
triggerRewrite_again(w, db, forked) ==
    IF ~forked THEN [w EXCEPT !.isRewriting = FALSE, !.rewriteBuffer = <<>>]
    ELSE [w EXCEPT !.isRewriting = TRUE, !.rewriteBuffer = <<>>,
                   !.rewriteChildPid = 1,
                   !.child = [NoChild EXCEPT !.at = "open", !.db = db]]

\* AOFWriter::triggerRewrite in the parent, fork() having succeeded or not.
triggerRewrite(w, db, forked) ==
    IF w.isRewriting THEN w
    ELSE IF ~forked THEN [w EXCEPT !.isRewriting = FALSE, !.rewriteBuffer = <<>>]
    ELSE [w EXCEPT !.isRewriting = TRUE, !.rewriteBuffer = <<>>,
                   !.rewriteChildPid = 1,
                   !.child = [NoChild EXCEPT !.at = "open", !.db = db]]

\* The child opens the temporary file, truncating it, and calls db.keys();
\* when open() fails it exits with status 1.
childOpen(w, opened) ==
    IF ~opened THEN [w EXCEPT !.child.at = "exited", !.child.status = 1]
    ELSE [w EXCEPT !.temp = <<>>, !.tempExists = TRUE,
                   !.child = [at |-> "value", status |-> 0,
                              db |-> dbKeys(w.child.db).db,
                              keys |-> dbKeys(w.child.db).ret, i |-> 1]]

\* The child at a key, once db.findEntry(key) has answered f: the command
\* for the value, or on to the next key when the key has expired.
childValueOn(w, f, key) ==
    IF ~f.ret.found
    THEN [w EXCEPT !.child.db = f.db, !.child.i = @ + 1]
    ELSE [w EXCEPT !.child.db = f.db, !.child.at = "ttl",
                   !.temp = writeRespCommand(@, snapshotCommand(key, f.ret.entry.value))]

childValue(w, now) ==
    childValueOn(w, findEntry(w.child.db, now, w.child.keys[w.child.i]),
                 w.child.keys[w.child.i])

\* The child at a key, once db.ttl(key) has answered r: PEXPIRE with the
\* remaining time when it is positive.
childTtlOn(w, r, key) ==
    [w EXCEPT !.child.db = r.db, !.child.at = "value", !.child.i = @ + 1,
              !.temp = IF r.ret > 0
                       THEN writeRespCommand(@, <<nPEXPIRE, key, to_string(r.ret)>>)
                       ELSE @]

childTtl(w, now) ==
    childTtlOn(w, ttl(w.child.db, now, now, w.child.keys[w.child.i]),
               w.child.keys[w.child.i])

\* The frames of the rewrite buffer, one after the other.
RECURSIVE ConcatFrames(_, _)
ConcatFrames(frames, j) ==
    IF j > Len(frames) THEN <<>> ELSE frames[j] \o ConcatFrames(frames, j + 1)

\* What the system calls of the parent in checkRewriteComplete do: all
\* succeed ("ok"), or the open() of the temporary file, the rename() or the
\* open() of the new AOF fails.
SysOutcomes == {"ok", "open", "rename", "reopen"}

\* The same, and the outcome where every write() of writeAll on the
\* temporary file fails: writeAll reports the error on stderr and returns,
\* and checkRewriteComplete goes on.
SwapOutcomes == SysOutcomes \cup {"write"}

\* The temporary file once the loop over rewriteBuffer_ has called writeAll
\* for every frame.
appended(w, sys) ==
    IF sys = "write" THEN w.temp
    ELSE w.temp \o ConcatFrames(w.rewriteBuffer, 1)

\* The state checkRewriteComplete always ends in.
cleared(w) ==
    [w EXCEPT !.rewriteBuffer = <<>>, !.isRewriting = FALSE,
              !.rewriteChildPid = -1, !.child = NoChild]

\* A checkRewriteComplete that swaps the files without the rewrite buffer.
checkRewriteComplete_drop(w, sys) ==
    IF w.rewriteChildPid < 0 THEN w
    ELSE IF w.child.at # "exited" THEN w
    ELSE IF w.child.status = 0
    THEN cleared([w EXCEPT !.file = w.temp, !.temp = <<>>, !.tempExists = FALSE,
                           !.synced = Len(w.temp)])
    ELSE cleared([w EXCEPT !.temp = <<>>, !.tempExists = FALSE])

\* A checkRewriteComplete that leaves the rewriting state as it is when the
\* child has failed.
checkRewriteComplete_stuck(w, sys) ==
    IF w.rewriteChildPid < 0 THEN w
    ELSE IF w.child.at # "exited" THEN w
    ELSE IF w.child.status = 0
    THEN cleared([w EXCEPT !.file = w.temp \o ConcatFrames(w.rewriteBuffer, 1),
                           !.temp = <<>>, !.tempExists = FALSE,
                           !.synced = Len(w.temp \o ConcatFrames(w.rewriteBuffer, 1)),
                           !.fd = 3])
    ELSE [w EXCEPT !.temp = <<>>, !.tempExists = FALSE]

\* The successful branch of checkRewriteComplete once the temporary file,
\* with the rewrite buffer appended, holds the bytes t: rename() puts it in
\* the place of the AOF, and fd_ is closed and opened again on the new file.
swapped(w, t, sys) ==
    IF sys = "rename" THEN [w EXCEPT !.temp = t]
    ELSE [w EXCEPT !.file = t, !.synced = Len(t), !.temp = <<>>,
                   !.tempExists = FALSE,
                   !.fd = IF sys = "reopen" THEN -1 ELSE 3]

\* AOFWriter::checkRewriteComplete: waitpid(WNOHANG) finds the child
\* running, exited with 0 (the buffer is appended to the temporary file,
\* which replaces the AOF) or failed (the temporary file is unlinked).
checkRewriteComplete(w, sys) ==
    IF w.rewriteChildPid < 0 THEN w
    ELSE IF w.child.at # "exited" THEN w
    ELSE IF w.child.status = 0
    THEN IF ~w.tempExists \/ sys = "open" THEN cleared(w)
         ELSE cleared(swapped(w, appended(w, sys), sys))
    ELSE cleared([w EXCEPT !.temp = <<>>, !.tempExists = FALSE])

\* ------------------------------------------------------------------------
\* AOFLoader (persistence/AOFLoader.cpp) and the append of the dispatcher.
\* ------------------------------------------------------------------------

\* The step of CommandTable::dispatch that follows the handler once an
\* AOFWriter is attached: "if the call succeeded and the entry is marked
\* is-write, append to AOF".  The handlers return void and report nothing
\* to dispatch, so the call succeeded when the handler was called and
\* returned.  d is what dispatch answered, w the writer.
logAfter(d, w, args) ==
    IF d.handler # "none" /\ ~d.threw /\ table_[ToUpperStr(args[1])].isWrite
    THEN log(w, args)
    ELSE w

\* The parse-and-replay loop of AOFLoader::load: the database afterwards and
\* the number of commands dispatched.  A handler that throws ends the loop
\* (and the process).
RECURSIVE replayLoop(_, _, _, _)
replayed(r, db, now, count) ==
    IF ~r.ok THEN [db |-> db, ret |-> count, threw |-> FALSE]
    ELSE IF r.args = <<>> THEN replayLoop(r.buf, db, now, count)
    ELSE IF dispatch(db, now, r.args).threw
    THEN [db |-> dispatch(db, now, r.args).db, ret |-> count, threw |-> TRUE]
    ELSE replayLoop(r.buf, dispatch(db, now, r.args).db, now, count + 1)

replayLoop(buffer, db, now, count) ==
    IF readableBytes(buffer) = 0 THEN [db |-> db, ret |-> count, threw |-> FALSE]
    ELSE replayed(parse(buffer), db, now, count)

\* Variant of the replay loop that, at a frame it cannot parse, drops the
\* bytes up to the end of the line and goes on with what follows.
RECURSIVE replayLoop_resync(_, _, _, _)
replayed_resync(r, buffer, db, now, count) ==
    IF ~r.ok
    THEN IF findCRLF(buffer.bytes, 0) < 0
         THEN [db |-> db, ret |-> count, threw |-> FALSE]
         ELSE replayLoop_resync(consume(buffer, findCRLF(buffer.bytes, 0) + 2),
                                db, now, count)
    ELSE IF r.args = <<>> THEN replayLoop_resync(r.buf, db, now, count)
    ELSE replayLoop_resync(r.buf, dispatch(db, now, r.args).db, now, count + 1)

replayLoop_resync(buffer, db, now, count) ==
    IF readableBytes(buffer) = 0 THEN [db |-> db, ret |-> count, threw |-> FALSE]
    ELSE replayed_resync(parse(buffer), buffer, db, now, count)

\* Variant of AOFLoader::load that replays past a frame it cannot parse.
load_resync(exists, file, db, now) ==
    IF ~exists THEN [db |-> db, ret |-> -1, threw |-> FALSE]
    ELSE IF file = <<>> THEN [db |-> db, ret |-> 0, threw |-> FALSE]
    ELSE replayLoop_resync(advanceWrite(ensureWritableBytes(NewBuffer, Len(file)), file),
                           db, now, 0)

\* AOFLoader::load of a file that exists or not, with these bytes.
load(exists, file, db, now) ==
    IF ~exists THEN [db |-> db, ret |-> -1, threw |-> FALSE]
    ELSE IF file = <<>> THEN [db |-> db, ret |-> 0, threw |-> FALSE]
    ELSE replayLoop(advanceWrite(ensureWritableBytes(NewBuffer, Len(file)), file),
                    db, now, 0)

\* ------------------------------------------------------------------------
\* State
\* ------------------------------------------------------------------------

VARIABLES
    db,          \* the Database: table_ and ttlHeap_
    now,         \* what nowMs() returns
    in_,         \* Connection::in_, the incoming Buffer
    out_,        \* Connection::out_, the outgoing Buffer
    wantRead,    \* Connection::wantRead_
    wantWrite,   \* Connection::wantWrite_
    wantClose,   \* Connection::wantClose_
    pc,          \* where the reactor is in its handling of the current event
    epoll,       \* the events the connection's fd is registered for
    events,      \* the events epoll reported for the event being handled
    wire,        \* bytes the peer has sent and the server has not read yet
    peerClosed,  \* the peer has shut its side down
    aof,         \* the AOFWriter, with the files it writes
    history      \* what has happened so far (not program state)

vars == <<db, now, in_, out_, wantRead, wantWrite, wantClose, pc, epoll, events,
          wire, peerClosed, aof, history>>

connVars == <<in_, out_, wantRead, wantWrite, wantClose>>

\* A Connection after its constructor (net/Listener.h, Connection).
connFresh ==
    /\ in_ = NewBuffer
    /\ out_ = NewBuffer
    /\ wantRead = TRUE
    /\ wantWrite = FALSE
    /\ wantClose = FALSE

Concat(a, b) == a \o b

RECURSIVE ConcatAll(_, _)
ConcatAll(seqs, i) ==
    IF i > Len(seqs) THEN <<>> ELSE seqs[i] \o ConcatAll(seqs, i + 1)

\* ------------------------------------------------------------------------
\* SpecParse: RespParser::parse over a buffer that fills as a socket read
\* fills it.  The peer's bytes are up to MaxFrames command frames, each the
\* encoding AOFWriter::formatRespCommand gives an argument vector or an
\* inline line; they arrive in pieces and parse runs at any moment.
\* ------------------------------------------------------------------------

\* Argument byte-strings: empty, plain, holding CR LF, and looking like a
\* bulk header.
Elems == {<<>>, <<"a">>, <<CR, LF>>, <<"$", "1", CR, LF, "b">>}

\* Longest argument vector encoded.
MaxArgs == 2

ArgvSet == UNION {[1..n -> Elems] : n \in 0..MaxArgs}

ArrayFrames == {[bytes |-> formatRespCommand(a), args |-> a] : a \in ArgvSet}

\* Inline commands with the argument vectors their lines spell.
InlineFrames ==
    {[bytes |-> <<"g", " ", " ", "k", " ">> \o CRLF, args |-> <<<<"g">>, <<"k">>>>],
     [bytes |-> <<"P">> \o CRLF, args |-> <<<<"P">>>>]}

Frames == ArrayFrames \cup InlineFrames

FrameSeqs == UNION {[1..n -> Frames] : n \in 0..MaxFrames}

FrameBytes(frames) == ConcatAll([j \in 1..Len(frames) |-> frames[j].bytes], 1)

InitParse ==
    /\ db = NewDatabase
    /\ now = 0
    /\ connFresh
    /\ pc = "parse"
    /\ epoll = {"IN"}
    /\ events = {}
    /\ peerClosed = FALSE
    /\ aof = NoAOF
    /\ \E frames \in FrameSeqs :
           /\ wire = FrameBytes(frames)
           /\ history = [frames |-> frames, fed |-> 0, commands |-> <<>>,
                         taken |-> 0, last |-> "none", before |-> NewBuffer]

\* n more bytes arrive, as Connection::handleRead stores them.
Feed(n) ==
    /\ n \in 1..Len(wire)
    /\ in_' = advanceWrite(ensureWritableBytes(in_, kReadBufSize), SubSeq(wire, 1, n))
    /\ wire' = SubSeq(wire, n + 1, Len(wire))
    /\ history' = [history EXCEPT !.fed = @ + n, !.last = "feed", !.before = in_]
    /\ UNCHANGED <<db, now, out_, wantRead, wantWrite, wantClose, pc, epoll,
                   events, peerClosed, aof>>

FeedOne == Feed(1)
FeedAll == Feed(Len(wire))

\* One call of RespParser::parse on the incoming buffer.
Parse ==
    /\ history.last # "incomplete"
    /\ LET r == parse(in_)
       IN  /\ in_' = r.buf
           /\ history' =
                 IF r.ok
                 THEN [history EXCEPT !.commands = Append(@, r.args),
                                      !.taken = @ + (readableBytes(in_)
                                                     - readableBytes(r.buf)),
                                      !.last = "command", !.before = in_]
                 ELSE [history EXCEPT !.last = "incomplete", !.before = in_]
    /\ UNCHANGED <<db, now, out_, wantRead, wantWrite, wantClose, pc, epoll,
                   events, wire, peerClosed, aof>>

NextParse == FeedOne \/ FeedAll \/ Parse

SpecParse == InitParse /\ [][NextParse]_vars

IsStrictPrefix(a, b) == Len(a) < Len(b) /\ a = SubSeq(b, 1, Len(a))

\* Readable bytes that hold no complete frame: nothing, a strict prefix of
\* an array-of-bulk-strings frame, or an inline line whose CR LF is still to
\* come.
NoCompleteFrame(bytes) ==
    \/ bytes = <<>>
    \/ \E f \in ArrayFrames : IsStrictPrefix(bytes, f.bytes)
    \/ /\ \E f \in InlineFrames : IsStrictPrefix(bytes, f.bytes)
       /\ \A i \in 1..(Len(bytes) - 1) : ~(bytes[i] = CR /\ bytes[i + 1] = LF)

Parsed == history.last \in {"command", "incomplete"}

\* C2: parse on a buffer whose readable bytes hold no complete frame (empty,
\* a strict prefix of an array frame, an inline line without its CR LF)
\* returns incomplete and leaves the read cursor, the write cursor and the
\* readable bytes as they were.
C2_IncompleteLeavesBuffer ==
    (Parsed /\ NoCompleteFrame(history.before.bytes))
        => (history.last = "incomplete" /\ in_ = history.before)

\* A parse that met the partial second frame left behind a first one.
C2_Witness ==
    /\ history.last = "incomplete"
    /\ history.before.bytes # <<>>
    /\ history.before.readPos > 0
    /\ NoCompleteFrame(history.before.bytes)

AllBytes == FrameBytes(history.frames)

\* C3: a successful parse consumes exactly the first frame, so the readable
\* region is always the bytes that arrived after the frames parsed so far,
\* the commands returned are the frames' commands in order, and once all n
\* frames have arrived parse answers incomplete only after the n-th command,
\* on an empty buffer.
C3_ConsumesExactlyFirstFrame ==
    LET m == Len(history.commands)
    IN  /\ m <= Len(history.frames)
        /\ history.commands = [j \in 1..m |-> history.frames[j].args]
        /\ history.taken = Len(FrameBytes(SubSeq(history.frames, 1, m)))
        /\ in_.bytes = SubSeq(AllBytes, history.taken + 1, history.fed)
        /\ (history.last = "incomplete" /\ wire = <<>>)
               => (m = Len(history.frames) /\ history.before.bytes = <<>>)

\* The first of two different frames was parsed out of a buffer holding both.
C3_Witness ==
    /\ Len(history.frames) = 2
    /\ history.frames[1] # history.frames[2]
    /\ history.last = "command"
    /\ Len(history.commands) = 1
    /\ history.before.bytes = AllBytes
    /\ in_.bytes = history.frames[2].bytes

\* C4: parsing the encoding formatRespCommand gives an argument vector
\* returns exactly that vector and consumes the whole encoding, for vectors
\* with empty elements and with elements holding CR LF alike.
C4_EncodeParseRoundTrip ==
    \A a \in ArgvSet :
        (Parsed /\ history.before.bytes = formatRespCommand(a))
            => /\ history.last = "command"
               /\ history.commands[Len(history.commands)] = a
               /\ readableBytes(in_) = 0

\* The vector (CR LF, empty) went through the round trip.
C4_Witness ==
    /\ history.last = "command"
    /\ history.before.bytes = formatRespCommand(<<CRLF, <<>>>>)
    /\ history.commands[Len(history.commands)] = <<CRLF, <<>>>>


\* ------------------------------------------------------------------------
\* Spec: the reactor of main() serving one connection.  The peer sends up
\* to MaxFrames frames and may shut down; each event epoll reports for the
\* connection is handled in the steps of the loop body: read, parse and
\* dispatch until parse answers incomplete, write, then the close check, the
\* epoll update, the rehash step and the cleanup.
\* ------------------------------------------------------------------------

kK == <<"k">>
kL == <<"L">>
kV == <<"v">>

\* What the peer sends: well-formed commands, an unknown command, commands
\* with too many and too few arguments, a range with indices that are no
\* numbers, an inline command, and an array of no elements.
ClientFrames ==
    {[bytes |-> formatRespCommand(a), args |-> a] :
        a \in {<<nRPUSH, kL, <<"a">>>>,
               <<nSET, kK, <<"w">>>>,
               <<nGET, kK>>,
               <<nLRANGE, kL, <<"0">>, <<"-", "1">>>>,
               <<nLRANGE, kL, <<"x">>, <<"y">>>>,
               <<<<"F", "O", "O">>, kK>>,
               <<<<"s", "e", "t">>, kK, kV, <<"x">>>>,
               <<nGET>>,
               <<nDEL>>,
               <<>>}}
    \cup {[bytes |-> <<"g", "e", "t">> \o <<" ">> \o kK \o CRLF,
           args |-> <<<<"g", "e", "t">>, kK>>]}

Init ==
    /\ db = NewDatabase
    /\ now = StartMs
    /\ connFresh
    /\ pc = "poll"
    /\ epoll = {"IN"}
    /\ events = {}
    /\ wire = <<>>
    /\ peerClosed = FALSE
    /\ aof = NoAOF
    /\ history = [sent |-> <<>>, read |-> 0, parsed |-> 0,
                  dispatched |-> <<>>, replies |-> <<>>, handlers |-> <<>>,
                  flushed |-> <<>>, last |-> "none", before |-> NewDatabase,
                  batch |-> 0]

\* The peer sends one more frame.  Bytes that arrive while an event is being
\* handled are seen by the next read only, so sending is placed between
\* events.
ClientSend ==
    /\ pc = "poll"
    /\ ~peerClosed
    /\ Len(history.sent) < MaxFrames
    /\ \E f \in ClientFrames :
           /\ wire' = wire \o f.bytes
           /\ history' = [history EXCEPT !.sent = Append(@, f)]
    /\ UNCHANGED <<db, now, connVars, pc, epoll, events, peerClosed, aof>>

ClientShutdown ==
    /\ pc = "poll"
    /\ ~peerClosed
    /\ peerClosed' = TRUE
    /\ UNCHANGED <<db, now, connVars, pc, epoll, events, wire, aof, history>>

\* The sizes a read() or write() of up to n available bytes may return.
IoSizes(n) == {n, (n + 1) \div 2}

\* Connection::handleRead after in_.ensureWritableBytes(kReadBufSize) gave
\* buf: read() takes bytes off the wire, or answers 0 at end of file, and
\* then setWantRead(false) follows.
readInto(buf) ==
    IF wire # <<>>
    THEN \E n \in IoSizes(Min({Len(wire), writableBytes(buf)})) :
             /\ in_' = advanceWrite(buf, SubSeq(wire, 1, n))
             /\ wire' = SubSeq(wire, n + 1, Len(wire))
             /\ history' = [history EXCEPT !.read = @ + n, !.batch = 0]
             /\ wantRead' = wantRead
    ELSE /\ in_' = buf
         /\ wantRead' = FALSE
         /\ UNCHANGED <<wire, history>>

\* epoll reports the connection readable: Connection::handleRead, and
\* setWantRead(false) when it answers false.
ReadEvent ==
    /\ pc = "poll"
    /\ "IN" \in epoll
    /\ wire # <<>> \/ peerClosed
    /\ events' \in {{"IN"}} \cup (IF "OUT" \in epoll THEN {{"IN", "OUT"}} ELSE {})
    /\ readInto(ensureWritableBytes(in_, kReadBufSize))
    /\ pc' = "parse"
    /\ UNCHANGED <<db, now, out_, wantWrite, wantClose, epoll, peerClosed, aof>>

\* parser.parse answers incomplete: the loop ends, and setWantWrite(true)
\* if the outgoing buffer holds bytes.
ParseIncomplete ==
    /\ pc = "parse"
    /\ ~parse(in_).ok
    /\ wantWrite' = (wantWrite \/ readableBytes(out_) > 0)
    /\ pc' = "write"
    /\ UNCHANGED <<db, now, in_, out_, wantRead, wantClose, epoll, events, wire,
                   peerClosed, aof, history>>

\* parser.parse answers an empty command: continue.
ParseEmpty ==
    /\ pc = "parse"
    /\ parse(in_).ok
    /\ parse(in_).args = <<>>
    /\ in_' = parse(in_).buf
    /\ history' = [history EXCEPT !.parsed = @ + 1, !.last = "empty"]
    /\ UNCHANGED <<db, now, out_, wantRead, wantWrite, wantClose, pc, epoll,
                   events, wire, peerClosed, aof>>

\* The loop body once commandTable.dispatch(db, conn, args) has answered d.
\* An exception that leaves the handler is caught nowhere and ends the
\* process.
dispatched(args, d) ==
    /\ db' = d.db
    /\ out_' = emitAll(out_, d.out, 1)
    /\ pc' = IF d.threw THEN "terminated" ELSE "parse"
    /\ history' = [history EXCEPT !.parsed = @ + 1,
                                  !.dispatched = Append(@, args),
                                  !.replies = Append(@, d.out),
                                  !.handlers = Append(@, d.handler),
                                  !.batch = @ + 1,
                                  !.last = "dispatch",
                                  !.before = db]

\* The loop body once parser.parse has answered the command r.
parsedCommand(r) ==
    /\ in_' = r.buf
    /\ dispatched(r.args, dispatch(db, now, r.args))

\* parser.parse answers a command: commandTable.dispatch.
Dispatch ==
    /\ pc = "parse"
    /\ parse(in_).ok
    /\ parse(in_).args # <<>>
    /\ parsedCommand(parse(in_))
    /\ UNCHANGED <<now, wantRead, wantWrite, wantClose, epoll, events, wire,
                   peerClosed, aof>>

\* epoll reports the connection writable and not readable.
WriteEvent ==
    /\ pc = "poll"
    /\ "OUT" \in epoll
    /\ ~("IN" \in epoll /\ (wire # <<>> \/ peerClosed))
    /\ events' = {"OUT"}
    /\ pc' = "write"
    /\ UNCHANGED <<db, now, connVars, epoll, wire, peerClosed, aof, history>>

\* The write branch: Connection::handleWrite when EPOLLOUT was reported and
\* the connection is not marked for close.
WriteStep ==
    /\ pc = "write"
    /\ IF "OUT" \in events /\ ~wantClose
       THEN IF readableBytes(out_) = 0
            THEN /\ wantWrite' = FALSE
                 /\ UNCHANGED <<out_, wantClose, history>>
            ELSE \/ \E n \in IoSizes(readableBytes(out_)) :
                        /\ out_' = consume(out_, n)
                        /\ history' = [history EXCEPT
                               !.flushed = @ \o SubSeq(out_.bytes, 1, n),
                               !.last = "write"]
                        /\ wantWrite' = (wantWrite /\ readableBytes(out_) # n)
                        /\ wantClose' = wantClose
                 \/ /\ peerClosed
                    /\ wantClose' = TRUE
                    /\ UNCHANGED <<out_, wantWrite, history>>
       ELSE UNCHANGED <<out_, wantWrite, wantClose, history>>
    /\ pc' = "finish"
    /\ UNCHANGED <<db, now, in_, wantRead, epoll, events, wire, peerClosed, aof>>

\* A loop body that closes a connection as soon as its read side has
\* ended, whatever its outgoing buffer holds.
FinishEvent_early ==
    /\ pc = "finish"
    /\ LET close == wantClose \/ ~wantRead
       IN  /\ wantClose' = close
           /\ epoll' = IF close THEN {}
                       ELSE (IF wantRead THEN {"IN"} ELSE {})
                            \cup (IF wantWrite THEN {"OUT"} ELSE {})
           /\ pc' = IF close THEN "closed" ELSE "poll"
    /\ db' = dbRehashStep(db)
    /\ events' = {}
    /\ UNCHANGED <<now, in_, out_, wantRead, wantWrite, wire, peerClosed, aof, history>>

\* The rest of the loop body: the close check, eventLoop.modFd,
\* db.rehashStep() and the removal of a connection marked for close.
FinishEvent ==
    /\ pc = "finish"
    /\ LET close == wantClose \/ (~wantRead /\ readableBytes(out_) = 0)
       IN  /\ wantClose' = close
           /\ epoll' = IF close THEN {}
                       ELSE (IF wantRead THEN {"IN"} ELSE {})
                            \cup (IF wantWrite THEN {"OUT"} ELSE {})
           /\ pc' = IF close THEN "closed" ELSE "poll"
    /\ db' = dbRehashStep(db)
    /\ events' = {}
    /\ UNCHANGED <<now, in_, out_, wantRead, wantWrite, wire, peerClosed, aof, history>>

\* epoll reports EPOLLERR: setWantClose(true), and the cleanup at the end of
\* the iteration removes the connection.
ErrorEvent ==
    /\ pc = "poll"
    /\ epoll # {}
    /\ peerClosed
    /\ wantClose' = TRUE
    /\ db' = dbRehashStep(db)
    /\ epoll' = {}
    /\ pc' = "closed"
    /\ UNCHANGED <<now, in_, out_, wantRead, wantWrite, events, wire, peerClosed, aof,
                   history>>

Next ==
    \/ ClientSend \/ ClientShutdown
    \/ ReadEvent \/ ParseIncomplete \/ ParseEmpty \/ Dispatch
    \/ WriteEvent \/ WriteStep \/ FinishEvent \/ ErrorEvent

Spec == Init /\ [][Next]_vars

\* ------------------------------------------------------------------------
\* Properties of Spec
\* ------------------------------------------------------------------------

\* The argument vectors of the frames sent so far, in the order sent.
SentArgs == [j \in 1..Len(history.sent) |-> history.sent[j].args]

NonEmpty(seq) == SelectSeq(seq, LAMBDA a : a # <<>>)

\* The serializer calls that make up one reply: a single scalar, or an array
\* header followed by as many bulk strings as it announces.
IsOneReply(out) ==
    /\ out # <<>>
    /\ IF out[1].t = "array"
       THEN /\ Len(out) = 1 + out[1].n
            /\ \A j \in 2..Len(out) : out[j].t = "bulk"
       ELSE Len(out) = 1

\* The bytes of a sequence of replies.
ReplyBytes(replies) ==
    ConcatAll([k \in 1..Len(replies) |-> emitAll(NewBuffer, replies[k], 1).bytes], 1)

\* C1: the non-empty frames are dispatched in the order their bytes arrived,
\* each dispatched frame appends exactly one reply to the outgoing buffer,
\* the replies leave in the order of the frames, and when the write branch
\* of an iteration is reached no complete frame is left in the incoming
\* buffer.
C1_OneReplyPerFrameInOrder ==
    /\ history.dispatched = NonEmpty(SubSeq(SentArgs, 1, history.parsed))
    /\ Len(history.replies) = Len(history.dispatched)
    /\ \A k \in 1..Len(history.replies) : IsOneReply(history.replies[k])
    /\ history.flushed \o out_.bytes = ReplyBytes(history.replies)
    /\ pc \in {"write", "finish"} => ~parse(in_).ok

\* Two frames of one read were dispatched, each with its reply.
C1_Witness ==
    /\ Len(history.dispatched) = 2
    /\ history.batch = 2
    /\ \A k \in 1..2 : IsOneReply(history.replies[k])
    /\ history.flushed # <<>>

\* What the registry says of an argument vector: no entry under the
\* upper-cased name, or an argument count the entry's arity excludes
\* (positive = exact count, negative = minimum count).
Rejected(args) ==
    /\ args # <<>>
    /\ \/ ToUpperStr(args[1]) \notin
              {registered[j].name : j \in 1..Len(registered)}
       \/ \E j \in 1..Len(registered) :
              /\ registered[j].name = ToUpperStr(args[1])
              /\ \/ registered[j].arity > 0 /\ Len(args) # registered[j].arity
                 \/ registered[j].arity < 0 /\ Len(args) < 0 - registered[j].arity

IsErrReply(out) ==
    /\ Len(out) = 1
    /\ out[1].t = "error"
    /\ SubSeq(out[1].s, 1, 4) = <<"E", "R", "R", " ">>

C5_RejectStep ==
    (pc = "parse" /\ parse(in_).ok /\ Rejected(parse(in_).args)) =>
        /\ db' = db
        /\ wantClose' = wantClose
        /\ Len(history'.replies) = Len(history.replies) + 1
        /\ IsErrReply(history'.replies[Len(history'.replies)])
        /\ out_'.bytes = out_.bytes
               \o emitAll(NewBuffer, history'.replies[Len(history'.replies)], 1).bytes
        /\ history'.handlers[Len(history'.handlers)] = "none"
        /\ pc' = "parse"

\* C5: dispatching a frame whose command is not registered or whose argument
\* count violates the entry's arity appends exactly one -ERR reply, runs no
\* handler, leaves the keyspace and the TTL index as they were, does not mark
\* the connection for close, and the parse loop goes on: no complete frame
\* is left undispatched when the iteration reaches its write branch.
C5_RejectedFrameOnlyAnswers ==
    /\ [][C5_RejectStep]_vars
    /\ [](pc \in {"write", "finish"} => ~parse(in_).ok)

\* Over a keyspace that holds k, a frame with too many arguments for SET was
\* answered and the frame that came with it in the same read ran its handler.
C5_Witness ==
    /\ Len(history.dispatched) = 2
    /\ history.batch = 2
    /\ Rejected(history.dispatched[1])
    /\ history.handlers = <<"none", "cmdSet">>
    /\ IsErrReply(history.replies[1])
    /\ ~wantClose


\* ------------------------------------------------------------------------
\* SpecTyped: CommandTable::dispatch over one database with the clock
\* standing still.  Up to MaxOps commands are dispatched, drawn from the
\* typed commands on key k, the commands that create k with each type, SET
\* with values of every spelling, PEXPIRE and DEL.
\* ------------------------------------------------------------------------

\* Commands dispatched in a run.
MaxOps == 3

kM == <<"m">>

\* Values for SET: plain bytes, empty, decimal integers, and byte-strings
\* that strtoll converts entirely although they are not the decimal
\* spelling of the number (leading zeros, sign, white space).
Values ==
    {<<"v">>, <<>>, <<"1", "2">>, <<"-", "5">>, <<"0", "0", "7">>,
     <<"+", "5">>, <<" ", "5">>, <<"-", "0">>}

TypedCommands ==
    {<<nSET, kK, v>> : v \in Values}
    \cup {<<nSET, kM, kV>>, <<nPEXPIRE, kK, <<"5">>>>, <<nDEL, kK>>}
    \cup {<<nGET, kK>>}
    \cup {<<nLPUSH, kK, <<"x">>>>, <<nRPUSH, kK, <<"a">>>>, <<nLPOP, kK>>,
          <<nRPOP, kK>>, <<nLLEN, kK>>,
          <<nLRANGE, kK, <<"0">>, <<"-", "1">>>>,
          <<nLRANGE, kK, <<"x">>, <<"y">>>>}
    \cup {<<nHSET, kK, <<"f">>, kV>>, <<nHSET, kK, <<"f">>, kV, <<"g">>>>,
          <<nHGET, kK, <<"f">>>>,
          <<nHDEL, kK, <<"f">>>>, <<nHGETALL, kK>>, <<nHLEN, kK>>}
    \cup {<<nSADD, kK, <<"a">>>>, <<nSREM, kK, <<"a">>>>,
          <<nSISMEMBER, kK, <<"a">>>>, <<nSMEMBERS, kK>>, <<nSCARD, kK>>}
    \cup {<<nZADD, kK, <<"1">>, <<"a">>>>,
          <<nZADD, kK, <<"1">>, <<"a">>, <<"2">>>>,
          <<nZSCORE, kK, <<"a">>>>, <<nZRANK, kK, <<"a">>>>,
          <<nZRANGE, kK, <<"0">>, <<"-", "1">>>>,
          <<nZRANGE, kK, <<"0">>, <<"-", "1">>, WITHSCORES>>,
          <<nZRANGE, kK, <<"0">>, <<"-", "1">>, <<"b", "o", "g", "u", "s">>>>,
          <<nZCARD, kK>>, <<nZREM, kK, <<"a">>>>}

NoCommand == [args |-> <<>>, out |-> <<>>, handler |-> "none", before |-> NewDatabase]

InitTyped ==
    /\ db = NewDatabase
    /\ now = StartMs
    /\ connFresh
    /\ pc = "serving"
    /\ epoll = {}
    /\ events = {}
    /\ wire = <<>>
    /\ peerClosed = FALSE
    /\ aof = NoAOF
    /\ history = [ops |-> 0, last |-> NoCommand, prev |-> NoCommand]

\* The state once commandTable.dispatch(db, conn, args) has answered d.
executed(args, d) ==
    /\ db' = d.db
    /\ pc' = IF d.threw THEN "terminated" ELSE pc
    /\ history' = [ops  |-> history.ops + 1,
                   last |-> [args |-> args, out |-> d.out,
                             handler |-> d.handler, before |-> db],
                   prev |-> history.last]

\* One command is dispatched.
Command ==
    /\ pc = "serving"
    /\ history.ops < MaxOps
    /\ \E args \in TypedCommands : executed(args, dispatch(db, now, args))
    /\ UNCHANGED <<now, connVars, epoll, events, wire, peerClosed, aof>>

NextTyped == Command

SpecTyped == InitTyped /\ [][NextTyped]_vars

\* The type each typed command operates on.
TypeOf(name) ==
    CASE name = nGET -> "STRING"
      [] name \in {nLPUSH, nRPUSH, nLPOP, nRPOP, nLLEN, nLRANGE} -> "LIST"
      [] name \in {nHSET, nHGET, nHDEL, nHGETALL, nHLEN} -> "HASH"
      [] name \in {nSADD, nSREM, nSISMEMBER, nSMEMBERS, nSCARD} -> "SET"
      [] name \in {nZADD, nZSCORE, nZRANK, nZRANGE, nZCARD, nZREM} -> "ZSET"
      [] OTHER -> "NONE"

\* What a database holds, whatever the layout of its tables: each key with
\* its value and expireAt, and the entries of the TTL index.
Holds(d) ==
    [entries |-> {htEntries(d.table)[i] : i \in 1..Len(htEntries(d.table))},
     ttl     |-> {d.ttlHeap.heap[i] : i \in 1..Len(d.ttlHeap.heap)}]

\* The last command was a typed command on a key that held another type.
OnWrongType(c) ==
    /\ c.args # <<>>
    /\ TypeOf(c.args[1]) # "NONE"
    /\ find(c.before.table, c.args[2]).found
    /\ find(c.before.table, c.args[2]).entry.value.type # TypeOf(c.args[1])

\* C6: a typed command on a key that exists and holds a value of another
\* type is answered with the WRONGTYPE error, and the database holds what it
\* held before: the key's value, type and TTL and every other key.
C6_WrongTypeAnswered ==
    OnWrongType(history.last) =>
        /\ history.last.out = <<Error(WRONGTYPE)>>
        /\ Holds(db) = Holds(history.last.before)

\* LPUSH on a key that holds a string with a deadline was answered.
C6_Witness ==
    /\ OnWrongType(history.last)
    /\ history.last.args[1] = nLPUSH
    /\ history.last.out = <<Error(WRONGTYPE)>>
    /\ find(db.table, kK).entry.expireAt = StartMs + 5

\* GET k directly after SET k v.
GetAfterSet ==
    /\ history.prev.args # <<>>
    /\ history.prev.args[1] = nSET
    /\ history.last.args # <<>>
    /\ history.last.args[1] = nGET
    /\ history.last.args[2] = history.prev.args[2]

\* C7: GET k after SET k v, with nothing in between, answers exactly the
\* bytes v, whichever encoding v was stored with; a value stored with
\* INTEGER encoding reads back as the bytes that were given.
C7_GetReturnsWhatSetStored ==
    /\ GetAfterSet => history.last.out = <<BulkString(history.prev.args[3])>>
    /\ (history.last.args # <<>> /\ history.last.args[1] = nSET) =>
           asString(find(db.table, history.last.args[2]).entry.value)
               = history.last.args[3]

\* GET answered an integer-encoded value.
C7_Witness ==
    /\ GetAfterSet
    /\ history.prev.args[3] = <<"-", "5">>
    /\ find(db.table, kK).entry.value.encoding = "INTEGER"
    /\ history.last.out = <<BulkString(<<"-", "5">>)>>

\* db.activeExpireCycle(200) of the timer callback (main.cpp).
kActiveExpireMaxWork == 200

\* ------------------------------------------------------------------------
\* SpecTTL: the keyspace with deadlines.  Commands on the keys k and m are
\* dispatched while the clock advances up to MaxTime milliseconds and
\* Database::activeExpireCycle runs at any moment.  history.deadline is what
\* the commands dispatched so far make of each key: absent, held without a
\* deadline, or held with the deadline `at`.
\* ------------------------------------------------------------------------

Keys == {kK, kM}

\* db.activeExpireCycle(maxWork): the budget of the timer callback, and a
\* budget smaller than the number of keys.
MaxWorks == {1, kActiveExpireMaxWork}

TTLReads == {nGET, nEXISTS, nTTL, nPTTL, nLLEN}

TTLCommands ==
    {<<nSET, kK, kV>>, <<nSET, kM, kV>>, <<nDEL, kK>>}
    \cup {<<nPEXPIRE, kK, ms>> : ms \in {<<"0">>, <<"2">>, <<"-", "9", "9">>}}
    \cup {<<nPEXPIRE, kM, <<"1">>>>, <<nEXPIRE, kK, <<"0">>>>}
    \cup {<<name, kK>> : name \in TTLReads}
    \cup {<<nGET, kM>>}

Absent == [state |-> "absent", at |-> 0]
NoDeadline == [state |-> "none", at |-> 0]
Deadline(t) == [state |-> "set", at |-> t]

\* The key is held and its deadline, if it has one, lies ahead.
Live(dl, t) == dl.state = "none" \/ (dl.state = "set" /\ t < dl.at)

\* What a command makes of the key it names.
DeadlineAfter(dl, t, args) ==
    CASE args[1] = nSET -> NoDeadline
      [] args[1] = nDEL -> Absent
      [] args[1] = nPEXPIRE ->
             IF Live(dl, t) THEN Deadline(t + atoi(args[3])) ELSE Absent
      [] args[1] = nEXPIRE ->
             IF Live(dl, t) THEN Deadline(t + (atoi(args[3]) * 1000)) ELSE Absent
      [] OTHER -> IF Live(dl, t) THEN dl ELSE Absent

NoStep ==
    [args |-> <<>>, out |-> <<>>, before |-> NewDatabase, now |-> 0,
     deadline |-> Absent]

InitTTL ==
    /\ db = NewDatabase
    /\ now = StartMs
    /\ connFresh
    /\ pc = "serving"
    /\ epoll = {}
    /\ events = {}
    /\ wire = <<>>
    /\ peerClosed = FALSE
    /\ aof = NoAOF
    /\ history = [last |-> NoStep, deadline |-> [key \in Keys |-> Absent]]

\* The state once commandTable.dispatch(db, conn, args) has answered d.
executedAt(args, d) ==
    /\ db' = d.db
    /\ history' = [last |-> [args |-> args, out |-> d.out, before |-> db,
                             now |-> now, deadline |-> history.deadline[args[2]]],
                   deadline |-> [history.deadline EXCEPT ![args[2]] =
                                     DeadlineAfter(@, now, args)]]

\* One command is dispatched.
CommandTTL ==
    /\ \E args \in TTLCommands : executedAt(args, dispatch(db, now, args))
    /\ UNCHANGED <<now, connVars, pc, epoll, events, wire, peerClosed, aof>>

\* A millisecond passes.
Tick ==
    /\ now < StartMs + MaxTime
    /\ now' = now + 1
    /\ history' = [history EXCEPT !.last = NoStep]
    /\ UNCHANGED <<db, connVars, pc, epoll, events, wire, peerClosed, aof>>

\* The state once db.activeExpireCycle has left the database d.
expiredTo(d) ==
    /\ db' = d
    /\ history' = [last |-> NoStep,
                   deadline |-> [key \in Keys |->
                       IF history.deadline[key].state = "set"
                          /\ history.deadline[key].at <= now
                          /\ ~find(d.table, key).found
                       THEN Absent ELSE history.deadline[key]]]

\* db.activeExpireCycle(maxWork), as the timer callback calls it.
ActiveExpire ==
    /\ \E maxWork \in MaxWorks : expiredTo(activeExpireCycle(db, now, maxWork))
    /\ UNCHANGED <<now, connVars, pc, epoll, events, wire, peerClosed, aof>>

NextTTL == CommandTTL \/ Tick \/ ActiveExpire

SpecTTL == InitTTL /\ [][NextTTL]_vars

InTTLIndex(d, key) ==
    \/ key \in DOMAIN d.ttlHeap.keyToIndex
    \/ \E i \in 1..Len(d.ttlHeap.heap) : d.ttlHeap.heap[i].key = key

\* C8: once SET has stored a key, whether or not the key had a deadline, its
\* entry has expireAt = -1, the key is not in the TTL index and TTL answers
\* -1, and this stays so while the clock advances and other commands and
\* expiry cycles run, until EXPIRE, PEXPIRE or DEL names the key.
C8_SetClearsTTL ==
    \A key \in Keys :
        history.deadline[key].state = "none" =>
            /\ find(db.table, key).found
            /\ find(db.table, key).entry.expireAt = -1
            /\ ~InTTLIndex(db, key)
            /\ ttl(db, now, now, key).ret = -1
            /\ cmdTtl(db, now, <<nTTL, key>>).out = <<Integer(-1)>>

\* SET has just overwritten k, which had a deadline, and later the clock
\* has not yet moved.
C8_Witness ==
    /\ history.last.args = <<nSET, kK, kV>>
    /\ history.last.deadline.state = "set"
    /\ find(history.last.before.table, kK).entry.expireAt >= 0
    /\ InTTLIndex(history.last.before, kK)
    /\ ttl(db, now, now, kK).ret = -1

\* What a read answers for a key that is not there.
AbsentReply(name) ==
    CASE name = nGET -> <<Null>>
      [] name = nEXISTS -> <<Integer(0)>>
      [] name = nTTL -> <<Integer(-2)>>
      [] name = nPTTL -> <<Integer(-2)>>
      [] name = nLLEN -> <<Integer(0)>>

\* The last step was a read of a key whose deadline had passed.
ReadPastDeadline ==
    /\ history.last.args # <<>>
    /\ history.last.args[1] \in TTLReads
    /\ history.last.deadline.state = "set"
    /\ history.last.now >= history.last.deadline.at

\* C9: the first get, exists, ttl or findEntry on a key made at or after the
\* key's deadline reports the key absent, the key is then in neither the
\* dictionary nor the TTL index, and the dictionary holds one entry less.
C9_ReadAfterDeadlineExpires ==
    ReadPastDeadline =>
        /\ history.last.out = AbsentReply(history.last.args[1])
        /\ ~find(db.table, history.last.args[2]).found
        /\ ~InTTLIndex(db, history.last.args[2])
        /\ htSize(db.table) = htSize(history.last.before.table) - 1

\* GET found k at its deadline and removed it.
C9_Witness ==
    /\ ReadPastDeadline
    /\ history.last.args = <<nGET, kK>>
    /\ history.last.deadline.at = StartMs + 2
    /\ history.last.out = <<Null>>
    /\ htSize(db.table) = htSize(history.last.before.table) - 1

\* ------------------------------------------------------------------------
\* SpecExpire: active expiry of keys no client reads.  Clients dispatch up
\* to MaxWrites SET and PEXPIRE commands and read nothing; the clock
\* advances up to MaxTime milliseconds and the timer callback runs.
\* EventLoop::poll clamps its timeout to the timer interval and calls the
\* callback whenever the interval has passed, so the callback keeps
\* running: WF_vars(TimerTick).
\* ------------------------------------------------------------------------

\* Commands the clients dispatch before they fall silent.
MaxWrites == 4

ExpireWrites ==
    {<<nSET, key, kV>> : key \in Keys}
    \cup {<<nPEXPIRE, key, ms>> :
             key \in Keys, ms \in {<<"1">>, <<"-", "9", "9">>}}

InitExpire ==
    /\ db = NewDatabase
    /\ now = StartMs
    /\ connFresh
    /\ pc = "idle"
    /\ epoll = {}
    /\ events = {}
    /\ wire = <<>>
    /\ peerClosed = FALSE
    /\ aof = NoAOF
    /\ history = [deadline |-> [key \in Keys |-> Absent], ops |-> 0,
                  maxWork |-> 0, before |-> NewDatabase]

\* What a SET or PEXPIRE answered with `out` makes of the key it names.
WrittenDeadline(dl, t, args, out) ==
    IF args[1] = nSET THEN NoDeadline
    ELSE IF out = <<Integer(1)>> THEN Deadline(t + atoi(args[3]))
    ELSE Absent

\* The state once commandTable.dispatch(db, conn, args) has answered d.
written(args, d) ==
    /\ db' = d.db
    /\ history' = [history EXCEPT
                       !.deadline[args[2]] = WrittenDeadline(@, now, args, d.out),
                       !.ops = @ + 1,
                       !.maxWork = 0]

\* One SET or PEXPIRE is dispatched.
Write ==
    /\ history.ops < MaxWrites
    /\ \E args \in ExpireWrites : written(args, dispatch(db, now, args))
    /\ UNCHANGED <<now, connVars, pc, epoll, events, wire, peerClosed, aof>>

\* A millisecond passes.
TickExpire ==
    /\ now < StartMs + MaxTime
    /\ now' = now + 1
    /\ history' = [history EXCEPT !.maxWork = 0]
    /\ UNCHANGED <<db, connVars, pc, epoll, events, wire, peerClosed, aof>>

\* The timer callback: db.activeExpireCycle(maxWork).
TimerTick ==
    /\ \E maxWork \in MaxWorks :
           /\ db' = activeExpireCycle(db, now, maxWork)
           /\ history' = [history EXCEPT !.maxWork = maxWork, !.before = db]
    /\ UNCHANGED <<now, connVars, pc, epoll, events, wire, peerClosed, aof>>

NextExpire == Write \/ TickExpire \/ TimerTick

\* EventLoop::poll clamps its timeout to the timer interval and calls the
\* callback whenever the interval has elapsed, so while the server runs the
\* callback cannot be put off for ever: weak fairness of TimerTick.
SpecExpire == InitExpire /\ [][NextExpire]_vars /\ WF_vars(TimerTick)

\* The keys a database holds.
KeysOf(d) == {htKeys(d.table)[i] : i \in 1..Len(htKeys(d.table))}

\* The deadline of the key has passed.
Passed(key) ==
    history.deadline[key].state = "set" /\ history.deadline[key].at <= now

\* The key is in neither the dictionary nor the TTL index.
Gone(key) == ~find(db.table, key).found /\ ~InTTLIndex(db, key)

\* What the last call of activeExpireCycle removed.
Removed == KeysOf(history.before) \ KeysOf(db)

ExpireCycleBounded ==
    history.maxWork > 0 =>
        /\ Cardinality(Removed) <= history.maxWork
        /\ \A key \in Removed : Passed(key) /\ Gone(key)

\* C10: with no client reading, the timer ticks eventually remove every key
\* whose deadline has passed from the dictionary and from the TTL index; a
\* call of activeExpireCycle(maxWork) removes at most maxWork keys, and only
\* keys whose deadline has passed.
C10_ActiveExpiry ==
    /\ []ExpireCycleBounded
    /\ <>[](\A key \in Keys : Passed(key) => Gone(key))

\* A call with maxWork = 1 has removed one of two keys whose deadline had
\* passed and left the other.
C10_Witness ==
    /\ history.maxWork = 1
    /\ Cardinality(Removed) = 1
    /\ \A key \in Keys : Passed(key)
    /\ \E key \in Keys : ~Gone(key)

\* ------------------------------------------------------------------------
\* SpecTtlCall: Database::ttl called while the clock runs.  The function
\* reads nowMs() for its expiry test and again for the remaining time; the
\* second reading is the first or up to MaxSkew milliseconds later.
\* Between calls SET, DEL and PEXPIRE are dispatched on the keys k and m.
\* ------------------------------------------------------------------------

\* Most milliseconds that pass between the two clock readings of one call.
MaxSkew == 2

TtlWrites ==
    {<<nSET, key, kV>> : key \in Keys}
    \cup {<<nDEL, key>> : key \in Keys}
    \cup {<<nPEXPIRE, key, ms>> :
              key \in Keys, ms \in {<<"1">>, <<"3">>, <<"-", "9", "9">>}}

NoCall ==
    [key |-> <<>>, ret |-> 0, now |-> 0, now2 |-> 0, deadline |-> Absent]

InitTtlCall ==
    /\ db = NewDatabase
    /\ now = StartMs
    /\ connFresh
    /\ pc = "idle"
    /\ epoll = {}
    /\ events = {}
    /\ wire = <<>>
    /\ peerClosed = FALSE
    /\ aof = NoAOF
    /\ history = [last |-> NoCall, deadline |-> [key \in Keys |-> Absent]]

\* The state once commandTable.dispatch(db, conn, args) has answered d.
wroteTtl(args, d) ==
    /\ db' = d.db
    /\ history' = [last |-> NoCall,
                   deadline |-> [history.deadline EXCEPT ![args[2]] =
                                     DeadlineAfter(@, now, args)]]

\* SET, DEL or PEXPIRE is dispatched.
WriteTtl ==
    /\ \E args \in TtlWrites : wroteTtl(args, dispatch(db, now, args))
    /\ UNCHANGED <<now, connVars, pc, epoll, events, wire, peerClosed, aof>>

\* A millisecond passes between two calls.
TickTtl ==
    /\ now < StartMs + MaxTime
    /\ now' = now + 1
    /\ history' = [history EXCEPT !.last = NoCall]
    /\ UNCHANGED <<db, connVars, pc, epoll, events, wire, peerClosed, aof>>

\* The state once db.ttl(key) has answered r, its second clock reading
\* having been now2.
ttlCalled(key, now2, r) ==
    /\ db' = r.db
    /\ now' = now2
    /\ history' = [last |-> [key |-> key, ret |-> r.ret, now |-> now,
                             now2 |-> now2, deadline |-> history.deadline[key]],
                   deadline |-> [history.deadline EXCEPT ![key] =
                                     IF Live(@, now) THEN @ ELSE Absent]]

\* db.ttl(key)
TtlCall ==
    /\ \E key \in Keys :
           \E now2 \in now..(now + MaxSkew) :
               /\ now2 <= StartMs + MaxTime
               /\ ttlCalled(key, now2, ttl(db, now, now2, key))
    /\ UNCHANGED <<connVars, pc, epoll, events, wire, peerClosed, aof>>

NextTtlCall == WriteTtl \/ TickTtl \/ TtlCall

SpecTtlCall == InitTtlCall /\ [][NextTtlCall]_vars

\* The last step was a call of ttl on a key whose deadline had passed.
TtlPastDeadline ==
    /\ history.last.deadline.state = "set"
    /\ history.last.deadline.at <= history.last.now

\* The last step was a call of ttl on a key whose deadline lay ahead.
TtlBeforeDeadline ==
    /\ history.last.deadline.state = "set"
    /\ history.last.now < history.last.deadline.at

\* C11: ttl answers -2 exactly for a key that is absent or whose deadline
\* has passed, and such a key is then gone from the dictionary and the TTL
\* index; -1 exactly for a key held without a deadline; and for a key whose
\* deadline lies ahead the milliseconds that remain, a number above 0.  (A
\* key that DEL removed is absent, so ttl answers -2 for it.)
C11_TtlAnswers ==
    history.last.key # <<>> =>
        /\ history.last.ret = -2 <=>
               (history.last.deadline.state = "absent" \/ TtlPastDeadline)
        /\ TtlPastDeadline => Gone(history.last.key)
        /\ history.last.ret = -1 <=> history.last.deadline.state = "none"
        /\ TtlBeforeDeadline =>
               /\ history.last.ret > 0
               /\ history.last.ret =
                      history.last.deadline.at - history.last.now2

\* ttl on a key whose deadline lay 3 ms ahead answered 3 with the key still
\* held.
C11_Witness ==
    /\ history.last.key = kK
    /\ TtlBeforeDeadline
    /\ history.last.ret = 3
    /\ find(db.table, kK).found

\* ------------------------------------------------------------------------
\* SpecHT: the HashTable by its public operations.  The keys of BaseKeys
\* are inserted one after the other, which takes the table past its load
\* factor and into incremental rehashing; at any moment the keys of
\* HtKeys are set, overwritten and deleted and rehashStep(n) is called.
\* db.table is the HashTable; history.map is what the calls so far make of
\* each key, history.last the last call.
\* ------------------------------------------------------------------------

BaseKeys ==
    <<<<"a">>, <<"b">>, <<"c">>, <<"d">>, <<"e">>, <<"f">>, <<"g">>, <<"h">>,
      <<"i">>, <<"j">>>>

\* How many of BaseKeys are inserted.
MaxFill == 9

\* The keys set and deleted at any moment: two of BaseKeys and two others.
HtKeys == {<<"a">>, <<"f">>, <<"x">>, <<"y">>}

HtAllKeys == HtKeys \cup {BaseKeys[j] : j \in 1..Len(BaseKeys)}

HtValues == {createString(<<"v">>), createString(<<"1">>)}

\* rehashStep(n): one migration, or the default batch.
HtSteps == {1, kRehashBatchSize}

Unset == [has |-> FALSE, value |-> NoData]
Stored(value) == [has |-> TRUE, value |-> value]

NoHtCall ==
    [op |-> "none", key |-> <<>>, ok |-> FALSE, had |-> FALSE,
     before |-> NewHashTable]

InitHT ==
    /\ db = NewDatabase
    /\ now = 0
    /\ connFresh
    /\ pc = "idle"
    /\ epoll = {}
    /\ events = {}
    /\ wire = <<>>
    /\ peerClosed = FALSE
    /\ aof = NoAOF
    /\ history = [map |-> [key \in HtAllKeys |-> Unset], filled |-> 0,
                  last |-> NoHtCall]

\* The state once table.set(key, value) has left the table ht.
htWasSet(key, value, ht, filled) ==
    /\ db' = [db EXCEPT !.table = ht]
    /\ history' = [map |-> [history.map EXCEPT ![key] = Stored(value)],
                   filled |-> filled,
                   last |-> [op |-> "set", key |-> key, ok |-> TRUE,
                             had |-> history.map[key].has,
                             before |-> db.table]]

\* table.set of the next key of BaseKeys.
HtFill ==
    /\ history.filled < MaxFill
    /\ history.filled < Len(BaseKeys)
    /\ htWasSet(BaseKeys[history.filled + 1], createString(<<"v">>),
                htSet(db.table, BaseKeys[history.filled + 1], createString(<<"v">>)),
                history.filled + 1)
    /\ UNCHANGED <<now, connVars, pc, epoll, events, wire, peerClosed, aof>>

\* table.set(key, value)
HtSet ==
    /\ \E key \in HtKeys :
           \E value \in HtValues :
               htWasSet(key, value, htSet(db.table, key, value), history.filled)
    /\ UNCHANGED <<now, connVars, pc, epoll, events, wire, peerClosed, aof>>

\* The state once table.del(key) has answered r.
htWasDeleted(key, r) ==
    /\ db' = [db EXCEPT !.table = r.ht]
    /\ history' = [history EXCEPT !.map[key] = Unset,
                                  !.last = [op |-> "del", key |-> key,
                                            ok |-> r.ok,
                                            had |-> history.map[key].has,
                                            before |-> db.table]]

\* table.del(key)
HtDel ==
    /\ \E key \in HtKeys : htWasDeleted(key, htDel(db.table, key))
    /\ UNCHANGED <<now, connVars, pc, epoll, events, wire, peerClosed, aof>>

\* table.rehashStep(n)
HtRehashStep ==
    /\ \E n \in HtSteps :
           /\ db' = [db EXCEPT !.table = rehashStep(@, n)]
           /\ history' = [history EXCEPT
                              !.last = [op |-> "step", key |-> <<>>,
                                        ok |-> FALSE, had |-> FALSE,
                                        before |-> db.table]]
    /\ UNCHANGED <<now, connVars, pc, epoll, events, wire, peerClosed, aof>>

NextHT == HtFill \/ HtSet \/ HtDel \/ HtRehashStep

SpecHT == InitHT /\ [][NextHT]_vars

\* The key is chained in the table t.
InTable(t, key) ==
    t.capacity > 0 /\ findInTable(t, key, hash(key)).found

\* C12: in every state, also between the steps of a rehash, find(k) returns
\* the entry with the value of the latest set(k, .) for every key that was
\* set and not deleted since, whichever table holds it, and nothing for a
\* key that was deleted or never set.
C12_FindReturnsLastSet ==
    \A key \in HtAllKeys :
        IF history.map[key].has
        THEN /\ find(db.table, key).found
             /\ find(db.table, key).entry.key = key
             /\ find(db.table, key).entry.value = history.map[key].value
        ELSE ~find(db.table, key).found

\* A rehash is under way and partly done, with entries in both tables: a key
\* that was overwritten is found in the old table, another in the new one.
C12_Witness ==
    /\ db.table.isRehashing
    /\ db.table.rehashIdx > 0
    /\ history.last.op = "step"
    /\ \E key \in HtKeys :
           /\ InTable(db.table.rehash, key)
           /\ history.map[key] = Stored(createString(<<"1">>))
           /\ find(db.table, key).entry.value = createString(<<"1">>)
    /\ \E key \in HtAllKeys :
           InTable(db.table.primary, key) /\ find(db.table, key).found

\* C13: size() is the number of distinct keys set and not deleted since,
\* counted across both tables; a set of a key that is present leaves size()
\* as it was; del answers true exactly when the key was present, so a
\* second del of the same key answers false.
C13_SizeCountsLiveKeys ==
    /\ htSize(db.table)
         = Cardinality({key \in HtAllKeys : history.map[key].has})
    /\ history.last.op = "set" /\ history.last.had
         => htSize(db.table) = htSize(history.last.before)
    /\ history.last.op = "del" => (history.last.ok <=> history.last.had)
    /\ history.last.op = "del" /\ history.last.ok
         => /\ htSize(db.table) = htSize(history.last.before) - 1
            /\ ~htDel(db.table, history.last.key).ok

\* A key held by the old table of a rehash under way was deleted, and the
\* size counts the entries left in both tables.
C13_Witness ==
    /\ history.last.op = "del"
    /\ history.last.ok
    /\ history.last.before.isRehashing
    /\ InTable(history.last.before.rehash, history.last.key)
    /\ htSize(db.table) = 8
    /\ ~find(db.table, history.last.key).found

\* ------------------------------------------------------------------------
\* SpecHeap: the TTLHeap by its public operations push, update, remove and
\* popExpired, in any order.  db.ttlHeap is the TTLHeap; history.last is the
\* last popExpired call, if the last call was one.
\* ------------------------------------------------------------------------

HeapKeys == {<<"a">>, <<"b">>, <<"c">>, <<"d">>, <<"e">>}

\* The deadlines pushed run from 1 to MaxDeadline, the clock of popExpired
\* from 0 to MaxDeadline.
MaxDeadline == 3

HeapDeadlines == 1..MaxDeadline

\* The maxWork of popExpired.
HeapWorks == {0, 1, 2, 5}

NoPop == [called |-> FALSE, nowMs |-> 0, maxWork |-> 0, expired |-> <<>>,
          before |-> NewTTLHeap]

InitHeap ==
    /\ db = NewDatabase
    /\ now = 0
    /\ connFresh
    /\ pc = "idle"
    /\ epoll = {}
    /\ events = {}
    /\ wire = <<>>
    /\ peerClosed = FALSE
    /\ aof = NoAOF
    /\ history = [last |-> NoPop]

\* ttlHeap.push(key, expireAtMs)
HeapPush ==
    /\ \E key \in HeapKeys :
           \E expireAtMs \in HeapDeadlines :
               db' = [db EXCEPT !.ttlHeap = heapPush(@, key, expireAtMs)]
    /\ history' = [last |-> NoPop]
    /\ UNCHANGED <<now, connVars, pc, epoll, events, wire, peerClosed, aof>>

\* ttlHeap.update(key, newExpireAtMs)
HeapUpdate ==
    /\ \E key \in HeapKeys :
           \E newExpireAtMs \in HeapDeadlines :
               db' = [db EXCEPT !.ttlHeap = heapUpdate(@, key, newExpireAtMs)]
    /\ history' = [last |-> NoPop]
    /\ UNCHANGED <<now, connVars, pc, epoll, events, wire, peerClosed, aof>>

\* ttlHeap.remove(key)
HeapRemove ==
    /\ \E key \in HeapKeys :
           db' = [db EXCEPT !.ttlHeap = heapRemove(@, key)]
    /\ history' = [last |-> NoPop]
    /\ UNCHANGED <<now, connVars, pc, epoll, events, wire, peerClosed, aof>>

\* The state once ttlHeap.popExpired(nowMs, maxWork) has answered r.
popped(nowMs, maxWork, r) ==
    /\ db' = [db EXCEPT !.ttlHeap = r.h]
    /\ history' = [last |-> [called |-> TRUE, nowMs |-> nowMs,
                             maxWork |-> maxWork, expired |-> r.expired,
                             before |-> db.ttlHeap]]

\* ttlHeap.popExpired(nowMs, maxWork)
HeapPopExpired ==
    /\ \E nowMs \in 0..MaxDeadline :
           \E maxWork \in HeapWorks :
               popped(nowMs, maxWork, popExpired(db.ttlHeap, nowMs, maxWork, <<>>))
    /\ UNCHANGED <<now, connVars, pc, epoll, events, wire, peerClosed, aof>>

NextHeap == HeapPush \/ HeapUpdate \/ HeapRemove \/ HeapPopExpired

SpecHeap == InitHeap /\ [][NextHeap]_vars

\* C14: after any interleaving of push, update, remove and popExpired the
\* deadline of every node of the heap is at most the deadline of each of its
\* children, and index 0 holds the minimum deadline of the heap.
C14_MinHeapOrder ==
    LET heap == db.ttlHeap.heap
    IN  /\ \A idx \in 1..(Len(heap) - 1) :
               heap[((idx - 1) \div 2) + 1].expireAtMs <= heap[idx + 1].expireAtMs
        /\ \A idx \in 1..Len(heap) : heap[1].expireAtMs <= heap[idx].expireAtMs

\* A heap of three levels whose deadlines differ, reached by a popExpired
\* that sifted the last entry down from the root.
C14_Witness ==
    /\ history.last.called
    /\ Len(history.last.expired) = 1
    /\ Len(db.ttlHeap.heap) = 4
    /\ db.ttlHeap.heap[1].expireAtMs = 2
    /\ db.ttlHeap.heap[4].expireAtMs = 3
    /\ history.last.before.heap[5].key = db.ttlHeap.heap[4].key

\* The keys a heap holds, and the deadline it holds for one of them.
HeapHeld(h) == {h.heap[i].key : i \in 1..Len(h.heap)}
HeapDeadlineOf(h, key) ==
    h.heap[CHOOSE i \in 1..Len(h.heap) : h.heap[i].key = key].expireAtMs

\* C15: popExpired(now, W) returns at most W keys, each with a deadline at
\* or before now, in non-decreasing order of deadline; the keys returned are
\* removed from the heap and no other key is, the others keeping their
\* deadlines; and when fewer than W keys are returned, no key left in the
\* heap has a deadline at or before now.
C15_PopExpiredBounded ==
    history.last.called =>
        LET ret    == history.last.expired
            before == history.last.before
            after  == db.ttlHeap
        IN  /\ Len(ret) <= history.last.maxWork
            /\ \A i \in 1..Len(ret) :
                   /\ ret[i] \in HeapHeld(before)
                   /\ HeapDeadlineOf(before, ret[i]) <= history.last.nowMs
            /\ \A i \in 1..Len(ret) : \A j \in i..Len(ret) :
                   /\ HeapDeadlineOf(before, ret[i]) <= HeapDeadlineOf(before, ret[j])
                   /\ i # j => ret[i] # ret[j]
            /\ HeapHeld(after) = HeapHeld(before) \ {ret[i] : i \in 1..Len(ret)}
            /\ Len(after.heap) = Cardinality(HeapHeld(after))
            /\ DOMAIN after.keyToIndex = HeapHeld(after)
            /\ \A key \in HeapHeld(after) :
                   HeapDeadlineOf(after, key) = HeapDeadlineOf(before, key)
            /\ Len(ret) < history.last.maxWork
                   => \A key \in HeapHeld(after) :
                          HeapDeadlineOf(after, key) > history.last.nowMs

\* popExpired stopped at its maxWork of two with a third expired key left
\* in the heap, and returned keys of two different deadlines.
C15_Witness ==
    /\ history.last.called
    /\ history.last.maxWork = 2
    /\ Len(history.last.expired) = 2
    /\ HeapDeadlineOf(history.last.before, history.last.expired[1])
         < HeapDeadlineOf(history.last.before, history.last.expired[2])
    /\ \E key \in HeapHeld(db.ttlHeap) :
           HeapDeadlineOf(db.ttlHeap, key) <= history.last.nowMs

\* ------------------------------------------------------------------------
\* Empty containers (under SpecTyped).
\* ------------------------------------------------------------------------

\* The value is a LIST, HASH, SET or ZSET without elements.
EmptyContainer(value) ==
    \/ value.type = "LIST" /\ value.data.list = <<>>
    \/ value.type = "HASH" /\ DOMAIN value.data.hash = {}
    \/ value.type = "SET" /\ value.data.set = {}
    \/ value.type = "ZSET" /\ (DOMAIN value.data.dict = {} \/ value.data.skiplist = <<>>)

\* The command c names every element, field or member that `value` holds
\* (a pop names the one element of a list of length one).
NamesAll(c, value) ==
    CASE c.args[1] \in {nLPOP, nRPOP} -> Len(value.data.list) = 1
      [] c.args[1] = nHDEL ->
             DOMAIN value.data.hash \subseteq Range(SubSeq(c.args, 3, Len(c.args)))
      [] c.args[1] = nSREM ->
             value.data.set \subseteq Range(SubSeq(c.args, 3, Len(c.args)))
      [] c.args[1] = nZREM ->
             DOMAIN value.data.dict \subseteq Range(SubSeq(c.args, 3, Len(c.args)))
      [] OTHER -> FALSE

\* The command c was LPOP, RPOP, HDEL, SREM or ZREM on a key that held a
\* container of the command's type, and took its last elements.
TookLast(c) ==
    /\ c.args # <<>>
    /\ c.args[1] \in {nLPOP, nRPOP, nHDEL, nSREM, nZREM}
    /\ find(c.before.table, c.args[2]).found
    /\ find(c.before.table, c.args[2]).entry.value.type = TypeOf(c.args[1])
    /\ NamesAll(c, find(c.before.table, c.args[2]).entry.value)

\* C16: after any command no key holds an empty LIST, HASH, SET or ZSET; a
\* LPOP, RPOP, HDEL, SREM or ZREM that took the last element, field or
\* member has deleted the key, so that EXISTS answers 0, and has removed
\* the key's entry of the TTL index; and a key that LPUSH, RPUSH, HSET,
\* SADD or ZADD has created holds at least one element.
C16_NoEmptyContainer ==
    /\ \A e \in Holds(db).entries : ~EmptyContainer(e.value)
    /\ TookLast(history.last) =>
           /\ ~find(db.table, history.last.args[2]).found
           /\ history.last.args[2] \notin DOMAIN db.ttlHeap.keyToIndex
           /\ \A i \in 1..Len(db.ttlHeap.heap) :
                  db.ttlHeap.heap[i].key # history.last.args[2]
           /\ dispatch(db, now, <<nEXISTS, history.last.args[2]>>).out
                = <<Integer(0)>>
    /\ /\ history.last.args # <<>>
       /\ history.last.args[1] \in {nLPUSH, nRPUSH, nHSET, nSADD, nZADD}
       /\ ~find(history.last.before.table, history.last.args[2]).found
       /\ find(db.table, history.last.args[2]).found
       => ~EmptyContainer(find(db.table, history.last.args[2]).entry.value)

\* ZREM took the only member of a sorted set that had a deadline.
C16_Witness ==
    /\ TookLast(history.last)
    /\ history.last.args[1] = nZREM
    /\ history.last.out = <<Integer(1)>>
    /\ history.last.args[2] \in DOMAIN history.last.before.ttlHeap.keyToIndex
    /\ history.prev.args[1] = nPEXPIRE

\* ------------------------------------------------------------------------
\* SpecAOF: a server with an AOFWriter attached.  Commands are dispatched
\* and logged, the clock advances and the timer runs the active expiry.
\* history.last is the last command with the database and the file before
\* and after it.
\* ------------------------------------------------------------------------

\* Commands dispatched in a run of SpecAOF.
MaxAofOps == 3

nNOPE == <<"N", "O", "P", "E">>

AofCommands ==
    {<<nSET, kK, kV>>, <<nSET, kM, <<"1">>>>, <<nGET, kK>>, <<nDEL, kK>>,
     <<nPEXPIRE, kK, <<"1">>>>, <<nPEXPIRE, kK, <<"x">>>>,
     <<nLPUSH, kK, <<"a">>>>, <<nRPUSH, kK, <<"b">>>>, <<nLPOP, kK>>,
     <<nHSET, kK, <<"f">>>>, <<nHSET, kK, <<"f">>, kV, <<"g">>>>,
     <<nSADD, kK, <<"a">>>>, <<nZADD, kK, <<"1">>, <<"a">>>>,
     <<nNOPE>>}

NoAofCommand ==
    [args |-> <<>>, out |-> <<>>, handler |-> "none", now |-> 0,
     before |-> NewDatabase, after |-> NewDatabase, file |-> <<>>]

InitAOF ==
    /\ db = NewDatabase
    /\ now = StartMs
    /\ connFresh
    /\ pc = "serving"
    /\ epoll = {}
    /\ events = {}
    /\ wire = <<>>
    /\ peerClosed = FALSE
    /\ aof = NewAOFWriter
    /\ history = [ops |-> 0, last |-> NoAofCommand]

\* The state once commandTable.dispatch(db, conn, args) has answered d.
executedAof(args, d) ==
    /\ db' = d.db
    /\ aof' = logAfter(d, aof, args)
    /\ pc' = IF d.threw THEN "terminated" ELSE pc
    /\ history' = [ops  |-> history.ops + 1,
                   last |-> [args |-> args, out |-> d.out, handler |-> d.handler,
                             now |-> now, before |-> db, after |-> d.db,
                             file |-> aof.file]]

\* One command is dispatched.
AofCommand ==
    /\ pc = "serving"
    /\ history.ops < MaxAofOps
    /\ \E args \in AofCommands : executedAof(args, dispatch(db, now, args))
    /\ UNCHANGED <<now, connVars, epoll, events, wire, peerClosed>>

\* The clock advances.
AofTick ==
    /\ now < StartMs + MaxTime
    /\ now' = now + 1
    /\ UNCHANGED <<db, connVars, pc, epoll, events, wire, peerClosed, aof, history>>

\* The timer callback: db.activeExpireCycle(kActiveExpireMaxWork).
AofTimer ==
    /\ pc = "serving"
    /\ db' = activeExpireCycle(db, now, kActiveExpireMaxWork)
    /\ UNCHANGED <<now, connVars, pc, epoll, events, wire, peerClosed, aof, history>>

NextAOF == AofCommand \/ AofTick \/ AofTimer

SpecAOF == InitAOF /\ [][NextAOF]_vars

\* The keyspace a client of the database d sees at clock t: every key that
\* is held and not past its deadline, with its value and whether it has a
\* deadline.
Keyspace(d, t) ==
    [key \in {e.key : e \in {x \in Holds(d).entries :
                                 x.expireAt < 0 \/ t < x.expireAt}} |->
        [value    |-> find(d.table, key).entry.value,
         deadline |-> find(d.table, key).entry.expireAt >= 0]]

\* The last command changed the keyspace.
Mutated(c) == Keyspace(c.after, c.now) # Keyspace(c.before, c.now)

\* The last command is not write-flagged, or was answered with an error.
ReadOnlyOrError(c) ==
    \/ ToUpperStr(c.args[1]) \notin DOMAIN table_
    \/ ~table_[ToUpperStr(c.args[1])].isWrite
    \/ (c.out # <<>> /\ c.out[1].t = "error")

Replayed == load(TRUE, aof.file, NewDatabase, now)

\* C18: replaying the AOF a run has written, from an empty keyspace, yields
\* the keyspace the run ended with: the same keys with the same types and
\* values, and a deadline on exactly the keys that had one, also when keys
\* were removed by lazy or active expiry during the run.
C18_ReplayReproducesKeyspace ==
    /\ ~Replayed.threw
    /\ Keyspace(Replayed.db, now) = Keyspace(db, now)

\* The run set k with a deadline, the active expiry removed k when the
\* deadline had passed, and the file is replayed.
C18_Witness ==
    /\ aof.file = formatRespCommand(<<nSET, kK, kV>>)
                  \o formatRespCommand(<<nPEXPIRE, kK, <<"1">>>>)
    /\ history.last.args = <<nPEXPIRE, kK, <<"1">>>>
    /\ find(history.last.after.table, kK).found
    /\ ~find(db.table, kK).found
    /\ ~InTTLIndex(db, kK)
    /\ Replayed.ret = 2

\* ------------------------------------------------------------------------
\* SpecRewrite: a server with an AOFWriter and a background rewrite.  The
\* parent dispatches and logs commands and polls the child from its timer;
\* the child, forked by triggerRewrite, walks its copy of the database one
\* key at a time, reading the clock at each call; the clock advances at
\* any moment.  history.forkDb is the parent's database at the fork and
\* history.forkNow the clock then; history.swap is what the successful end
\* of the rewrite found and left.
\* ------------------------------------------------------------------------

\* Commands dispatched in a run of SpecRewrite.
MaxRwOps == 3

RwCommands ==
    {<<nSET, kK, kV>>, <<nSET, kM, <<"1">>>>, <<nDEL, kK>>,
     <<nPEXPIRE, kK, <<"1">>>>, <<nPEXPIRE, kK, <<"3">>>>,
     <<nRPUSH, kK, <<"a">>>>, <<nZADD, kM, <<"2">>, <<"a">>>>}

NoSwap == [done |-> FALSE, buffer |-> <<>>, file |-> <<>>, now |-> 0]

InitRewrite ==
    /\ db = NewDatabase
    /\ now = StartMs
    /\ connFresh
    /\ pc = "serving"
    /\ epoll = {}
    /\ events = {}
    /\ wire = <<>>
    /\ peerClosed = FALSE
    /\ aof = NewAOFWriter
    /\ history = [ops |-> 0, forked |-> FALSE, forkDb |-> NewDatabase,
                  forkNow |-> 0, swap |-> NoSwap]

\* The state once commandTable.dispatch(db, conn, args) has answered d.
executedRw(args, d) ==
    /\ db' = d.db
    /\ aof' = logAfter(d, aof, args)
    /\ history' = [history EXCEPT !.ops = @ + 1]

\* One command is dispatched and logged.
RwCommand ==
    /\ history.ops < MaxRwOps
    /\ \E args \in RwCommands : executedRw(args, dispatch(db, now, args))
    /\ UNCHANGED <<now, connVars, pc, epoll, events, wire, peerClosed>>

\* The clock advances.
RwTick ==
    /\ now < StartMs + MaxTime
    /\ now' = now + 1
    /\ UNCHANGED <<db, connVars, pc, epoll, events, wire, peerClosed, aof, history>>

\* BGREWRITEAOF: aofWriter.triggerRewrite(db), once in a run.
TriggerRewrite ==
    /\ ~history.forked
    /\ \E forked \in BOOLEAN : aof' = triggerRewrite(aof, db, forked)
    /\ history' = [history EXCEPT !.forked = TRUE, !.forkDb = db,
                                  !.forkNow = now]
    /\ UNCHANGED <<db, now, connVars, pc, epoll, events, wire, peerClosed>>

\* The child opens the temporary file and takes the keys.
ChildOpen ==
    /\ aof.child.at = "open"
    /\ \E opened \in BOOLEAN : aof' = childOpen(aof, opened)
    /\ UNCHANGED <<db, now, connVars, pc, epoll, events, wire, peerClosed, history>>

\* The child writes the command for the value of its next key.
ChildValue ==
    /\ aof.child.at = "value"
    /\ aof.child.i <= Len(aof.child.keys)
    /\ aof' = childValue(aof, now)
    /\ UNCHANGED <<db, now, connVars, pc, epoll, events, wire, peerClosed, history>>

\* The child writes the PEXPIRE of the key, if the key has time left.
ChildTtl ==
    /\ aof.child.at = "ttl"
    /\ aof' = childTtl(aof, now)
    /\ UNCHANGED <<db, now, connVars, pc, epoll, events, wire, peerClosed, history>>

\* The child has walked every key: fsync, close, _exit(0).
ChildExit ==
    /\ aof.child.at = "value"
    /\ aof.child.i > Len(aof.child.keys)
    /\ aof' = [aof EXCEPT !.child.at = "exited", !.child.status = 0]
    /\ UNCHANGED <<db, now, connVars, pc, epoll, events, wire, peerClosed, history>>

\* The timer callback of the parent: aofWriter.checkRewriteComplete().
polled(w, sys) ==
    /\ aof' = w
    /\ history' =
           IF aof.child.at = "exited" /\ aof.child.status = 0
              /\ sys \in {"ok", "reopen"}
           THEN [history EXCEPT !.swap = [done |-> TRUE,
                                          buffer |-> aof.rewriteBuffer,
                                          file |-> w.file,
                                          now |-> now]]
           ELSE history

CheckRewriteComplete ==
    /\ aof.rewriteChildPid >= 0
    /\ \E sys \in SysOutcomes : polled(checkRewriteComplete(aof, sys), sys)
    /\ UNCHANGED <<db, now, connVars, pc, epoll, events, wire, peerClosed>>

NextRewrite ==
    \/ RwCommand
    \/ RwTick
    \/ TriggerRewrite
    \/ ChildOpen
    \/ ChildValue
    \/ ChildTtl
    \/ ChildExit
    \/ CheckRewriteComplete

SpecRewrite == InitRewrite /\ [][NextRewrite]_vars

\* The database that replaying these frames on the database d leaves, with
\* the clock at t.
After(d, frames, t) ==
    IF frames = <<>> THEN d
    ELSE replayLoop(advanceWrite(ensureWritableBytes(NewBuffer,
                                                     Len(ConcatFrames(frames, 1))),
                                 ConcatFrames(frames, 1)),
                    d, t, 0).db

\* C19: when the rewrite child has exited with status 0, replaying the new
\* AOF (what the child wrote, then the rewrite buffer) from an empty
\* keyspace yields the keyspace the parent had at the fork with every write
\* logged since the fork applied to it in order: the same keys and values,
\* and a deadline on the same keys.  The frames hold relative deadlines,
\* so each side is taken with the clock standing still, the replay at the
\* time of the swap and the parent's keyspace at the time of the fork.
C19_RewriteEquivalence ==
    history.swap.done =>
        Keyspace(load(TRUE, history.swap.file, NewDatabase, history.swap.now).db,
                 history.swap.now)
          = Keyspace(After(history.forkDb, history.swap.buffer, history.forkNow),
                     history.forkNow)

\* A rewrite that has succeeded: k was held at the fork and written by the
\* child, SET m 1 was logged while the child ran, and the new AOF is the
\* child's file followed by the rewrite buffer.
C19_Witness ==
    /\ history.swap.done
    /\ find(history.forkDb.table, kK).found
    /\ history.swap.buffer = <<formatRespCommand(<<nSET, kM, <<"1">>>>)>>
    /\ history.swap.file = formatRespCommand(<<nSET, kK, kV>>)
                           \o formatRespCommand(<<nSET, kM, <<"1">>>>)
    /\ aof.file = history.swap.file
    /\ ~aof.isRewriting

\* ------------------------------------------------------------------------
\* SpecLoad: the start of a server whose AOF path holds a file or none.  The
\* file is a sequence of frames followed by a tail that is empty or that no
\* frame can be parsed from.  history keeps what the file was made of, and
\* what AOFLoader::load returned.
\* ------------------------------------------------------------------------

MaxLoadFrames == 2

\* The commands of the frames; <<>> stands for the null array *-1.
LoadCommands ==
    {<<nSET, kK, kV>>, <<nSET, kM, <<"1">>>>, <<nDEL, kK>>,
     <<nRPUSH, kK, <<"a">>>>, <<nGET, kK>>, <<>>}

LoadItems == UNION {[1..n -> LoadCommands] : n \in 0..MaxLoadFrames}

\* The frame of one item.
FrameOf(args) ==
    IF args = <<>> THEN <<"*", "-", "1">> \o CRLF ELSE formatRespCommand(args)

RECURSIVE FramesOf(_, _)
FramesOf(items, i) ==
    IF i > Len(items) THEN <<>> ELSE FrameOf(items[i]) \o FramesOf(items, i + 1)

\* An array whose element is not a bulk string.
MalformedFrame == <<"*", "1">> \o CRLF \o <<":", "5">> \o CRLF

\* The tails: nothing, a frame cut short at any byte, bytes that are no
\* frame, and a malformed frame with a complete frame after it.
LoadTails ==
    {<<>>, <<"X", "Y">>, MalformedFrame \o formatRespCommand(<<nSET, kM, <<"1">>>>)}
    \cup {SubSeq(formatRespCommand(<<nSET, kM, <<"1">>>>), 1, n) :
             n \in 1..(Len(formatRespCommand(<<nSET, kM, <<"1">>>>)) - 1)}

InitLoad ==
    /\ db = NewDatabase
    /\ now = StartMs
    /\ connFresh
    /\ pc = "loading"
    /\ epoll = {}
    /\ events = {}
    /\ wire = <<>>
    /\ peerClosed = FALSE
    /\ \E exists \in BOOLEAN :
       \E items \in (IF exists THEN LoadItems ELSE {<<>>}) :
       \E tail \in (IF exists THEN LoadTails ELSE {<<>>}) :
           /\ aof = [NoAOF EXCEPT !.file = FramesOf(items, 1) \o tail]
           /\ history = [exists |-> exists, items |-> items, tail |-> tail,
                         done |-> FALSE, ret |-> 0]

\* The state once AOFLoader::load has answered r.
loaded(r) ==
    /\ db' = r.db
    /\ pc' = IF r.threw THEN "terminated" ELSE "serving"
    /\ history' = [history EXCEPT !.done = TRUE, !.ret = r.ret]

\* main(): AOFLoader::load(aofPath, commandTable, db) before the server
\* starts to serve.
Load ==
    /\ pc = "loading"
    /\ loaded(load(history.exists, aof.file, db, now))
    /\ UNCHANGED <<now, connVars, epoll, events, wire, peerClosed, aof>>

NextLoad == Load

SpecLoad == InitLoad /\ [][NextLoad]_vars

\* The database once the commands of the items have been dispatched in
\* order on d, the null arrays left out.
RECURSIVE Dispatched(_, _, _, _)
Dispatched(items, i, d, t) ==
    IF i > Len(items) THEN d
    ELSE IF items[i] = <<>> THEN Dispatched(items, i + 1, d, t)
    ELSE Dispatched(items, i + 1, dispatch(d, t, items[i]).db, t)

MaxWrOps == 2
MaxRewrites == 2

WrCommands == {<<nSET, kK, kV>>, <<nSET, kM, <<"1">>>>, <<nDEL, kK>>, <<nGET, kK>>}

NoWriterOp ==
    [op |-> "none", args |-> <<>>, db |-> NewDatabase, before |-> NoAOF,
     sys |-> "ok", forked |-> FALSE, afterFailure |-> FALSE]

InitWriter ==
    /\ db = NewDatabase
    /\ now = StartMs
    /\ connFresh
    /\ pc = "serving"
    /\ epoll = {}
    /\ events = {}
    /\ wire = <<>>
    /\ peerClosed = FALSE
    /\ \E opened \in BOOLEAN :
           /\ aof = IF opened THEN NewAOFWriter ELSE NoAOF
           /\ history = [opened |-> opened, ops |-> 0, rewrites |-> 0,
                         last |-> NoWriterOp]

\* The state once commandTable.dispatch(db, conn, args) has answered d.
executedWr(args, d) ==
    /\ db' = d.db
    /\ aof' = logAfter(d, aof, args)
    /\ history' = [history EXCEPT !.ops = @ + 1,
                       !.last = [NoWriterOp EXCEPT !.op = "command", !.args = args,
                                                   !.db = db, !.before = aof]]

\* One command is dispatched and logged.
WrCommand ==
    /\ history.ops < MaxWrOps
    /\ \E args \in WrCommands : executedWr(args, dispatch(db, now, args))
    /\ UNCHANGED <<now, connVars, pc, epoll, events, wire, peerClosed>>

\* The timer callback: aofWriter.tick(), a second or less after the last
\* fsync.
WrTick ==
    /\ \E elapsed \in {0, 1} : aof' = tick(aof, elapsed)
    /\ history' = [history EXCEPT !.last = [NoWriterOp EXCEPT !.op = "tick",
                                                              !.before = aof]]
    /\ UNCHANGED <<db, now, connVars, pc, epoll, events, wire, peerClosed>>

\* The last poll found that the child had failed or had been killed.
FailedPoll(l) ==
    /\ l.op = "poll"
    /\ l.before.rewriteChildPid >= 0
    /\ l.before.child.at = "exited"
    /\ l.before.child.status # 0

\* BGREWRITEAOF: aofWriter.triggerRewrite(db).
WrTrigger ==
    /\ history.rewrites < MaxRewrites
    /\ \E forked \in BOOLEAN :
           /\ aof' = triggerRewrite(aof, db, forked)
           /\ history' = [history EXCEPT !.rewrites = @ + 1,
                              !.last = [NoWriterOp EXCEPT
                                           !.op = "trigger", !.before = aof,
                                           !.forked = forked,
                                           !.afterFailure = FailedPoll(history.last)]]
    /\ UNCHANGED <<db, now, connVars, pc, epoll, events, wire, peerClosed>>

\* The child is killed by a signal, or exits with a status that is not 0.
ChildKilled ==
    /\ aof.child.at \in {"open", "value", "ttl"}
    /\ aof' = [aof EXCEPT !.child.at = "exited", !.child.status = 9]
    /\ UNCHANGED <<db, now, connVars, pc, epoll, events, wire, peerClosed, history>>

\* The timer callback: aofWriter.checkRewriteComplete().
WrPoll ==
    /\ \E sys \in SysOutcomes :
           /\ aof' = checkRewriteComplete(aof, sys)
           /\ history' = [history EXCEPT !.last = [NoWriterOp EXCEPT
                                                      !.op = "poll", !.before = aof,
                                                      !.sys = sys]]
    /\ UNCHANGED <<db, now, connVars, pc, epoll, events, wire, peerClosed>>

NextWriter ==
    \/ WrCommand
    \/ WrTick
    \/ WrTrigger
    \/ ChildOpen
    \/ ChildValue
    \/ ChildTtl
    \/ ChildExit
    \/ ChildKilled
    \/ WrPoll

SpecWriter == InitWriter /\ [][NextWriter]_vars

\* The bytes s end the bytes t.
IsSuffix(s, t) ==
    /\ Len(s) <= Len(t)
    /\ SubSeq(t, Len(t) - Len(s) + 1, Len(t)) = s

\* C21: when checkRewriteComplete finds that the child has exited with a
\* status other than 0 or has been killed, the temporary file is removed,
\* the AOF holds the bytes it held (with the commands logged during the
\* attempt at its end), fd_ is what it was, and the rewriting state is
\* cleared; and a triggerRewrite that follows, its fork succeeding, starts a
\* new rewrite.
C21_FailedRewriteLeavesAOF ==
    /\ FailedPoll(history.last) =>
           /\ ~aof.tempExists
           /\ aof.file = history.last.before.file
           /\ IsSuffix(ConcatFrames(history.last.before.rewriteBuffer, 1), aof.file)
           /\ aof.fd = history.last.before.fd
           /\ ~aof.isRewriting
           /\ aof.rewriteChildPid = -1
           /\ aof.rewriteBuffer = <<>>
    /\ (history.last.op = "trigger" /\ history.last.afterFailure
        /\ history.last.forked) =>
           /\ aof.isRewriting
           /\ aof.rewriteChildPid >= 0
           /\ aof.child.at # "none"

\* The child was killed while it wrote its file, SET m 1 having been logged
\* during the attempt; the poll has cleaned up.
C21_Witness ==
    /\ FailedPoll(history.last)
    /\ history.last.before.tempExists
    /\ history.last.before.temp # <<>>
    /\ history.last.before.rewriteBuffer = <<formatRespCommand(<<nSET, kM, <<"1">>>>)>>
    /\ aof.file = formatRespCommand(<<nSET, kK, kV>>)
                  \o formatRespCommand(<<nSET, kM, <<"1">>>>)
    /\ aof.fd >= 0

\* C22: when the open() of the constructor has failed, the writer is never
\* enabled afterwards: fd_ stays negative, log and tick leave the file and
\* what is synced as they were, whatever rewrites are triggered and polled;
\* and a command is executed on the keyspace all the same.
C22_DisabledForGood ==
    ~history.opened =>
        /\ aof.fd < 0
        /\ aof.file = <<>>
        /\ aof.synced = 0
        /\ history.last.op = "command" =>
               db = dispatch(history.last.db, now, history.last.args).db

\* The writer was disabled from the start, SET k v was executed and not
\* logged, and a rewrite has been polled after its child exited with 0.
C22_Witness ==
    /\ ~history.opened
    /\ history.last.op = "poll"
    /\ history.last.before.child.at = "exited"
    /\ history.last.before.child.status = 0
    /\ history.last.before.fd < 0
    /\ history.last.before.file = <<>>
    /\ find(db.table, kK).found

\* ------------------------------------------------------------------------
\* SpecBuf: one Buffer, held in in_ with its memory, under append,
\* ensureWritableBytes, write-and-advanceWrite and consume.  history keeps
\* every byte written, how many were consumed, and the last call with the
\* buffer as it was before it.
\* ------------------------------------------------------------------------

MaxBytes == 5

BufBytes == {"a", "b"}
BufData == {<<x>> : x \in BufBytes} \cup {<<x, y>> : x \in BufBytes, y \in {"b"}}

\* Requests of ensureWritableBytes: a byte, what is left of the first
\* allocation but for one or two bytes, the read size, twice the read size.
BufLens == {1, kInitialCapacity - 2, kInitialCapacity - 1, kReadBufSize, 2 * kReadBufSize}

InitBuf ==
    /\ db = NewDatabase
    /\ now = 0
    /\ in_ = NewMemBuffer
    /\ out_ = NewBuffer
    /\ wantRead = TRUE
    /\ wantWrite = FALSE
    /\ wantClose = FALSE
    /\ pc = "serving"
    /\ epoll = {}
    /\ events = {}
    /\ wire = <<>>
    /\ peerClosed = FALSE
    /\ aof = NoAOF
    /\ history = [written |-> <<>>, consumed |-> 0, op |-> "none",
                  before |-> NewMemBuffer]

\* Which tier an ensureWritableBytes(len) on m takes (0: none).
TierOf(m, len) ==
    IF writableBytes(m) >= len THEN 0
    ELSE IF m.cap >= readableBytes(m) + len THEN 2
    ELSE 3

bufUnchanged == <<db, now, out_, wantRead, wantWrite, wantClose, pc, epoll, events,
                  wire, peerClosed, aof>>

\* buffer.append(bytes, len)
BufAppend ==
    /\ \E bytes \in BufData :
           /\ Len(history.written) + Len(bytes) <= MaxBytes
           /\ in_' = memAppend(in_, bytes)
           /\ history' = [history EXCEPT !.written = @ \o bytes, !.op = "append",
                                         !.before = in_]
    /\ UNCHANGED bufUnchanged

\* buffer.ensureWritableBytes(len)
BufEnsure ==
    /\ \E len \in BufLens :
           /\ in_' = memEnsureWritableBytes(in_, len)
           /\ history' = [history EXCEPT !.op = "ensure", !.before = in_]
    /\ UNCHANGED bufUnchanged

\* Bytes are stored at writablePtr() and committed: buffer.advanceWrite(n).
BufWrite ==
    /\ \E bytes \in BufData :
           /\ Len(bytes) <= writableBytes(in_)
           /\ Len(history.written) + Len(bytes) <= MaxBytes
           /\ in_' = memAdvanceWrite(in_, bytes)
           /\ history' = [history EXCEPT !.written = @ \o bytes, !.op = "write",
                                         !.before = in_]
    /\ UNCHANGED bufUnchanged

\* buffer.consume(n)
BufConsume ==
    /\ \E n \in 0..readableBytes(in_) :
           /\ in_' = memConsume(in_, n)
           /\ history' = [history EXCEPT !.consumed = @ + n, !.op = "consume",
                                         !.before = in_]
    /\ UNCHANGED bufUnchanged

NextBuf ==
    \/ BufAppend
    \/ BufEnsure
    \/ BufWrite
    \/ BufConsume

SpecBuf == InitBuf /\ [][NextBuf]_vars

\* C23: the readable region is the bytes written so far without the bytes
\* consumed so far, in the order they were written, whatever resets,
\* compactions and growths have taken place; and the cursors stay within
\* the memory.
C23_ReadableIsFifo ==
    /\ Readable(in_) = SubSeq(history.written, history.consumed + 1,
                              Len(history.written))
    /\ in_.readPos <= in_.writePos
    /\ in_.writePos <= in_.cap
    /\ in_.writePos <= Len(in_.data)

\* A compaction has moved two readable bytes that differ to the front of a
\* buffer that had been consumed from.
C23_Witness ==
    /\ history.op = "ensure"
    /\ TierOf(history.before, kInitialCapacity - 2) = 2
    /\ history.before.readPos > 0
    /\ in_.readPos = 0
    /\ in_.cap = history.before.cap
    /\ Readable(in_) = <<"a", "b">>

\* A growth has done the same and doubled the capacity.
C23_WitnessGrow ==
    /\ history.op \in {"ensure", "append"}
    /\ history.before.readPos > 0
    /\ history.before.cap = kInitialCapacity
    /\ in_.cap = 2 * kInitialCapacity
    /\ in_.readPos = 0
    /\ Len(Readable(in_)) >= 2

\* ------------------------------------------------------------------------
\* SpecIO: the reactor of Spec with every outcome of read() and write().
\* history.io is the last handleRead or handleWrite: what the system call
\* did, what the function returned, and the connection before the call and
\* after the branch of main() that made it.
\* ------------------------------------------------------------------------

\* What read() and write() do: bytes are transferred ("data"), read() meets
\* the end of the stream ("eof"), write() transfers nothing ("zero"), or the
\* call fails with this errno.
Retryable == {"EAGAIN", "EINTR"}
NonRetryable == {"ECONNRESET"}

\* Connection::handleRead on the incoming buffer, read() doing r and
\* storing bytes when r is "data".
handleRead(buf, r, bytes) ==
    IF r = "data"
    THEN [buf |-> advanceWrite(ensureWritableBytes(buf, kReadBufSize), bytes),
          ret |-> TRUE]
    ELSE IF r = "eof"
    THEN [buf |-> ensureWritableBytes(buf, kReadBufSize), ret |-> FALSE]
    ELSE IF r = "EAGAIN"
    THEN [buf |-> ensureWritableBytes(buf, kReadBufSize), ret |-> TRUE]
    ELSE [buf |-> ensureWritableBytes(buf, kReadBufSize), ret |-> FALSE]

\* Connection::handleWrite on the outgoing buffer, write() doing r and
\* taking n bytes when r is "data".
handleWrite(buf, r, n) ==
    IF readableBytes(buf) = 0 THEN [buf |-> buf, ret |-> TRUE]
    ELSE IF r = "data" THEN [buf |-> consume(buf, n), ret |-> TRUE]
    ELSE IF r = "zero" THEN [buf |-> buf, ret |-> TRUE]
    ELSE IF r = "EAGAIN" THEN [buf |-> buf, ret |-> TRUE]
    ELSE [buf |-> buf, ret |-> FALSE]

ConnOf(i, o, r, w, c) ==
    [in_ |-> i, out_ |-> o, wantRead |-> r, wantWrite |-> w, wantClose |-> c]

NoIo == [call |-> "none", outcome |-> "none", alive |-> TRUE,
         before |-> ConnOf(NewBuffer, NewBuffer, TRUE, FALSE, FALSE),
         after |-> ConnOf(NewBuffer, NewBuffer, TRUE, FALSE, FALSE)]

IoFrames ==
    {[bytes |-> formatRespCommand(a), args |-> a] :
        a \in {<<nSET, kK, <<"w">>>>, <<nGET, kK>>}}
    \cup {[bytes |-> <<"*", "-", "1">> \o CRLF, args |-> <<>>]}

InitIO ==
    /\ db = NewDatabase
    /\ now = StartMs
    /\ connFresh
    /\ pc = "poll"
    /\ epoll = {"IN"}
    /\ events = {}
    /\ wire = <<>>
    /\ peerClosed = FALSE
    /\ aof = NoAOF
    /\ history = [sent |-> <<>>, read |-> 0, parsed |-> 0,
                  dispatched |-> <<>>, replies |-> <<>>, handlers |-> <<>>,
                  flushed |-> <<>>, last |-> "none", before |-> NewDatabase,
                  batch |-> 0, io |-> NoIo]

\* The peer sends one more frame.
IoSend ==
    /\ pc = "poll"
    /\ ~peerClosed
    /\ Len(history.sent) < MaxFrames
    /\ \E f \in IoFrames :
           /\ wire' = wire \o f.bytes
           /\ history' = [history EXCEPT !.sent = Append(@, f)]
    /\ UNCHANGED <<db, now, connVars, pc, epoll, events, peerClosed, aof>>

\* What read() may do: take bytes that have arrived, meet the end of the
\* stream or a reset when the peer has closed, find nothing (a readiness
\* that was spurious), or be interrupted by a signal.
ReadOutcomes ==
    (IF wire # <<>> THEN {"data"}
     ELSE IF peerClosed THEN {"eof", "ECONNRESET"} ELSE {"EAGAIN"})
    \cup {"EINTR"}

\* The read branch once handleRead has answered h, n bytes taken.
readDone(h, r, n) ==
    /\ in_' = h.buf
    /\ wantRead' = (wantRead /\ h.ret)
    /\ wire' = SubSeq(wire, n + 1, Len(wire))
    /\ history' = [history EXCEPT
           !.read = @ + n, !.batch = 0,
           !.io = [call |-> "read", outcome |-> r, alive |-> h.ret,
                   before |-> ConnOf(in_, out_, wantRead, wantWrite, wantClose),
                   after |-> ConnOf(h.buf, out_, wantRead /\ h.ret, wantWrite,
                                    wantClose)]]

\* epoll reports the connection readable: Connection::handleRead, and
\* setWantRead(false) when it answers false.
IoReadEvent ==
    /\ pc = "poll"
    /\ "IN" \in epoll
    /\ events' \in {{"IN"}} \cup (IF "OUT" \in epoll THEN {{"IN", "OUT"}} ELSE {})
    /\ \E r \in ReadOutcomes :
       \E n \in (IF r = "data" THEN IoSizes(Len(wire)) ELSE {0}) :
           readDone(handleRead(in_, r, SubSeq(wire, 1, n)), r, n)
    /\ pc' = "parse"
    /\ UNCHANGED <<db, now, out_, wantWrite, wantClose, epoll, peerClosed, aof>>

\* What write() may do.
WriteOutcomes ==
    {"data", "zero", "EAGAIN", "EINTR"}
    \cup (IF peerClosed THEN {"ECONNRESET"} ELSE {})

\* The write branch once handleWrite has answered h.
writeDone(h, r, n) ==
    /\ out_' = h.buf
    /\ wantClose' = (wantClose \/ ~h.ret)
    /\ wantWrite' = (wantWrite /\ ~(h.ret /\ readableBytes(h.buf) = 0))
    /\ history' = [history EXCEPT
           !.flushed = @ \o SubSeq(out_.bytes, 1, n),
           !.last = "write",
           !.io = [call |-> "write", outcome |-> r, alive |-> h.ret,
                   before |-> ConnOf(in_, out_, wantRead, wantWrite, wantClose),
                   after |-> ConnOf(in_, h.buf, wantRead,
                                    wantWrite /\ ~(h.ret /\ readableBytes(h.buf) = 0),
                                    wantClose \/ ~h.ret)]]

\* The write branch: Connection::handleWrite when EPOLLOUT was reported and
\* the connection is not marked for close.
IoWriteStep ==
    /\ pc = "write"
    /\ IF "OUT" \in events /\ ~wantClose
       THEN \E r \in WriteOutcomes :
            \E n \in (IF r = "data" /\ readableBytes(out_) > 0
                      THEN IoSizes(readableBytes(out_)) ELSE {0}) :
                writeDone(handleWrite(out_, r, n), r, n)
       ELSE UNCHANGED <<out_, wantWrite, wantClose, history>>
    /\ pc' = "finish"
    /\ UNCHANGED <<db, now, in_, wantRead, epoll, events, wire, peerClosed, aof>>

\* epoll reports the connection writable and not readable.
IoWriteEvent ==
    /\ pc = "poll"
    /\ "OUT" \in epoll
    /\ events' = {"OUT"}
    /\ pc' = "write"
    /\ UNCHANGED <<db, now, connVars, epoll, wire, peerClosed, aof, history>>

NextIO ==
    \/ IoSend \/ ClientShutdown
    \/ IoReadEvent \/ ParseIncomplete \/ ParseEmpty \/ Dispatch
    \/ IoWriteEvent \/ IoWriteStep \/ FinishEvent \/ ErrorEvent

SpecIO == InitIO /\ [][NextIO]_vars

\* The system call of the last handleRead or handleWrite was made (a
\* handleWrite with nothing to send makes none).
IoCalled ==
    \/ history.io.call = "read"
    \/ history.io.call = "write" /\ readableBytes(history.io.before.out_) > 0

\* C24: when read() or write() fails with "would block" or "interrupted",
\* handleRead and handleWrite answer that the connection is alive, and the
\* bytes of both buffers and the three flags of the connection are what
\* they were; they answer that it is not alive only at a read of zero bytes
\* or at an error that is not retryable.
C24_RetryableKeepsAlive ==
    IoCalled =>
        /\ history.io.outcome \in Retryable =>
               /\ history.io.alive
               /\ history.io.after.in_.bytes = history.io.before.in_.bytes
               /\ history.io.after.out_.bytes = history.io.before.out_.bytes
               /\ history.io.after.wantRead = history.io.before.wantRead
               /\ history.io.after.wantWrite = history.io.before.wantWrite
               /\ history.io.after.wantClose = history.io.before.wantClose
        /\ ~history.io.alive =>
               \/ history.io.call = "read" /\ history.io.outcome = "eof"
               \/ history.io.outcome \in NonRetryable

\* write() was interrupted while a reply waited in the outgoing buffer.
C24_Witness ==
    /\ history.io.call = "write"
    /\ history.io.outcome = "EINTR"
    /\ readableBytes(history.io.before.out_) > 0
    /\ Len(history.replies) > 0
    /\ history.flushed = <<>>

\* ------------------------------------------------------------------------
\* SpecKeyspace: the Database under commands of every family, with the
\* clock, the expiry cycle and the rehash step of the reactor.  A client
\* first stores the keys of BaseKeys one by one (the ninth starts a rehash),
\* and commands on a and k are dispatched at any moment.  history counts
\* the keys stored and the commands, and tells whether a PEXPIRE has been
\* given a negative deadline.
\* ------------------------------------------------------------------------

MaxKsOps == 3

kA == <<"a">>

KsCommands ==
    {<<nSET, kK, kV>>, <<nSET, kA, <<"1">>>>, <<nDEL, kK>>, <<nDEL, kA>>,
     <<nPEXPIRE, kK, <<"2">>>>, <<nPEXPIRE, kA, <<"1">>>>,
     <<nPEXPIRE, kK, <<"-", "9", "9">>>>,
     <<nGET, kK>>, <<nEXISTS, kA>>, <<nTTL, kA>>,
     <<nRPUSH, kK, <<"a">>>>, <<nLPOP, kK>>}

InitKeyspace ==
    /\ db = NewDatabase
    /\ now = StartMs
    /\ connFresh
    /\ pc = "serving"
    /\ epoll = {}
    /\ events = {}
    /\ wire = <<>>
    /\ peerClosed = FALSE
    /\ aof = NoAOF
    /\ history = [filled |-> 0, ops |-> 0, negative |-> FALSE]

\* SET of the next key of BaseKeys.
KsFill ==
    /\ history.filled < MaxFill
    /\ db' = dispatch(db, now, <<nSET, BaseKeys[history.filled + 1], kV>>).db
    /\ history' = [history EXCEPT !.filled = @ + 1]
    /\ UNCHANGED <<now, connVars, pc, epoll, events, wire, peerClosed, aof>>

\* The command gives a key that is held a deadline below zero.
NegativeDeadline(args, d) ==
    /\ args[1] = nPEXPIRE
    /\ now + atoi(args[3]) < 0
    /\ find(d.table, args[2]).found

\* One command is dispatched.
KsCommand ==
    /\ history.ops < MaxKsOps
    /\ \E args \in KsCommands :
           /\ db' = dispatch(db, now, args).db
           /\ history' = [history EXCEPT
                  !.ops = @ + 1,
                  !.negative = @ \/ NegativeDeadline(args, dispatch(db, now, args).db)]
    /\ UNCHANGED <<now, connVars, pc, epoll, events, wire, peerClosed, aof>>

\* A millisecond passes.
KsTick ==
    /\ now < StartMs + MaxTime
    /\ now' = now + 1
    /\ UNCHANGED <<db, connVars, pc, epoll, events, wire, peerClosed, aof, history>>

\* The timer callback: db.activeExpireCycle(maxWork).
KsActiveExpire ==
    /\ \E maxWork \in MaxWorks : db' = activeExpireCycle(db, now, maxWork)
    /\ UNCHANGED <<now, connVars, pc, epoll, events, wire, peerClosed, aof, history>>

\* The end of a reactor iteration: db.rehashStep().
KsRehashStep ==
    /\ db' = dbRehashStep(db)
    /\ UNCHANGED <<now, connVars, pc, epoll, events, wire, peerClosed, aof, history>>

NextKeyspace ==
    \/ KsFill
    \/ KsCommand
    \/ KsTick
    \/ KsActiveExpire
    \/ KsRehashStep

SpecKeyspace == InitKeyspace /\ [][NextKeyspace]_vars

\* The invariant I-TTL on the database d.
ITTL(d) ==
    /\ \A e \in Holds(d).entries :
           e.expireAt >= 0 <=>
               \E t \in Holds(d).ttl : t.key = e.key /\ t.expireAtMs = e.expireAt
    /\ \A t \in Holds(d).ttl : find(d.table, t.key).found
    /\ \A e \in Holds(d).entries :
           InTTLIndex(d, e.key) => e.expireAt >= 0

\* C25: after any sequence of operations on the keyspace, an entry of the
\* dictionary has expireAt >= 0 if and only if its key is in the TTL index
\* with that deadline, and every key of the TTL index is in the dictionary.
C25_TTLIndexAgrees == ITTL(db)

\* The dictionary holds the nine keys of BaseKeys and k and has rehashed; a
\* and k have deadlines, and the index and the entries agree on them.
C25_Witness ==
    /\ history.filled = MaxFill
    /\ find(db.table, kK).found
    /\ find(db.table, kK).entry.expireAt = StartMs + 2
    /\ InTTLIndex(db, kK)
    /\ find(db.table, kA).found
    /\ find(db.table, kA).entry.expireAt = StartMs + 1
    /\ InTTLIndex(db, kA)
    /\ ITTL(db)

\* ------------------------------------------------------------------------
\* SpecHTLarge: a HashTable that grows to 513 keys, the decimal numerals of
\* 1..513, stored batch after batch; the last one starts the rehash of a
\* table of 256 slots, which one rehashStep(128) does not finish.  Between
\* the batches and after them the keys of LargeKeys are set, are given a
\* deadline through the HTEntry* that find returns (as Database::setExpire
\* does), and rehash steps run.  history.last is the last call, with the
\* table before it.
\* ------------------------------------------------------------------------

MaxLargeFill == 513
FillBatch == 19
MaxLargeOps == 3

LargeKey(i) == NatToString(i)
LargeKeys == {LargeKey(1), LargeKey(2)}
LargeValues == {createString(<<"w">>)}

NoLargeCall ==
    [op |-> "none", key |-> <<>>, value |-> NoData, before |-> NewHashTable]

InitHTLarge ==
    /\ db = NewDatabase
    /\ now = 0
    /\ connFresh
    /\ pc = "idle"
    /\ epoll = {}
    /\ events = {}
    /\ wire = <<>>
    /\ peerClosed = FALSE
    /\ aof = NoAOF
    /\ history = [filled |-> 0, ops |-> 0, last |-> NoLargeCall]

\* table.set(LargeKey(i), "v") for i from the next key up to the key `to`.
RECURSIVE setMany(_, _, _)
setMany(ht, i, to) ==
    IF i > to THEN ht
    ELSE Bind(htSet(ht, LargeKey(i), createString(<<"v">>)),
              LAMBDA t : setMany(t, i + 1, to))

\* The next batch of keys is stored.
LargeFill ==
    /\ history.filled < MaxLargeFill
    /\ db' = [db EXCEPT !.table =
                 setMany(@, history.filled + 1,
                         Min({history.filled + FillBatch, MaxLargeFill}))]
    /\ history' = [history EXCEPT
                       !.filled = Min({history.filled + FillBatch, MaxLargeFill}),
                       !.last = NoLargeCall]
    /\ UNCHANGED <<now, connVars, pc, epoll, events, wire, peerClosed, aof>>

\* table.set(key, value)
LargeSet ==
    /\ history.ops < MaxLargeOps
    /\ \E key \in LargeKeys : \E value \in LargeValues :
           /\ db' = [db EXCEPT !.table = htSet(@, key, value)]
           /\ history' = [history EXCEPT
                              !.ops = @ + 1,
                              !.last = [op |-> "set", key |-> key, value |-> value,
                                        before |-> db.table]]
    /\ UNCHANGED <<now, connVars, pc, epoll, events, wire, peerClosed, aof>>

\* table.find(key)->expireAt = 5, for a key that is held.
LargeExpire ==
    /\ history.ops < MaxLargeOps
    /\ \E key \in LargeKeys :
           /\ find(db.table, key).found
           /\ db' = [db EXCEPT !.table =
                        storeEntry(@, key, [find(db.table, key).entry
                                               EXCEPT !.expireAt = 5])]
           /\ history' = [history EXCEPT
                              !.ops = @ + 1,
                              !.last = [op |-> "expire", key |-> key,
                                        value |-> NoData, before |-> db.table]]
    /\ UNCHANGED <<now, connVars, pc, epoll, events, wire, peerClosed, aof>>

\* table.rehashStep()
LargeRehashStep ==
    /\ db.table.isRehashing
    /\ db' = [db EXCEPT !.table = rehashStep(@, kRehashBatchSize)]
    /\ history' = [history EXCEPT
                       !.last = [op |-> "step", key |-> <<>>, value |-> NoData,
                                 before |-> db.table]]
    /\ UNCHANGED <<now, connVars, pc, epoll, events, wire, peerClosed, aof>>

NextHTLarge == LargeFill \/ LargeSet \/ LargeExpire \/ LargeRehashStep

SpecHTLarge == InitHTLarge /\ [][NextHTLarge]_vars

\* C26: HashTable::set on a key that is held replaces the value and nothing
\* else: the entry keeps its expireAt and the size of the table is what it
\* was, also when the key is still in the table the rehash migrates from;
\* on a key that is not held it makes an entry with expireAt = -1.
C26_SetKeepsExpireAt ==
    history.last.op = "set" =>
        /\ find(db.table, history.last.key).found
        /\ find(db.table, history.last.key).entry.value = history.last.value
        /\ IF find(history.last.before, history.last.key).found
           THEN /\ find(db.table, history.last.key).entry.expireAt
                     = find(history.last.before, history.last.key).entry.expireAt
                /\ htSize(db.table) = htSize(history.last.before)
           ELSE /\ find(db.table, history.last.key).entry.expireAt = -1
                /\ htSize(db.table) = htSize(history.last.before) + 1

\* The key 1 had a deadline and was in the table the rehash migrates from,
\* also after the 128 slots that set migrates first; set has stored its new
\* value.
C26_Witness ==
    /\ history.last.op = "set"
    /\ history.last.key = LargeKey(1)
    /\ history.last.before.isRehashing
    /\ findInTable(rehashStep(history.last.before, kRehashBatchSize).rehash,
                   LargeKey(1), hash(LargeKey(1))).found
    /\ find(history.last.before, LargeKey(1)).entry.expireAt = 5
    /\ find(db.table, LargeKey(1)).entry.value = createString(<<"w">>)

\* ---------------------------------------------------------------------
\* HashTable::set, HashTable::del and HashTable::rehashStep taken one step
\* at a time: each call of migrateOneSlot, set's delFromTable(rehash_) and
\* the insertion or deletion that ends the call are steps of their own, so
\* that the states a call passes through are states of the model. A call
\* runs to its end before the next one starts. The sets that fill a table
\* that is not rehashing, and do not start a rehash, are taken in batches.

MaxMgOps == 2

NoMgCall ==
    [op |-> "none", key |-> <<>>, value |-> NoData, at |-> "idle", left |-> 0,
     before |-> NewHashTable]

MgCall(op, key, value) ==
    [op |-> op, key |-> key, value |-> value, at |-> "rehashStep",
     left |-> kRehashBatchSize, before |-> db.table]

InitMigrate ==
    /\ db = NewDatabase
    /\ now = StartMs
    /\ connFresh
    /\ pc = "idle"
    /\ epoll = {}
    /\ events = {}
    /\ wire = <<>>
    /\ peerClosed = FALSE
    /\ aof = NoAOF
    /\ history = [filled |-> 0, ops |-> 0, call |-> NoMgCall,
                  prev |-> NewHashTable, returned |-> 0]

\* What every step of a call leaves as it is.
mgRest == UNCHANGED <<now, connVars, pc, epoll, events, wire, peerClosed, aof>>

\* A step of a call: the table it makes and where the call is then.
\* history.returned counts the calls of rehashStep, made on a table that
\* was rehashing, that have returned since the last rehash started.
mgStep(table, call) ==
    /\ db' = [db EXCEPT !.table = table]
    /\ history' = [history EXCEPT
           !.call = call,
           !.prev = db.table,
           !.returned =
               IF ~db.table.isRehashing /\ table.isRehashing THEN 0
               ELSE IF /\ history.call.at = "rehashStep"
                       /\ call.at # "rehashStep"
                       /\ history.call.before.isRehashing
               THEN @ + 1
               ELSE @]
    /\ mgRest

\* The number of keys a table that is not rehashing holds without a rehash.
MgRoom == kMaxLoadFactorNum * db.table.primary.capacity

\* While the table is not rehashing and has room, the next keys never
\* stored so far are stored by set, call after call, up to a batch of them.
MgFill ==
    /\ history.call.at = "idle"
    /\ history.ops = 0
    /\ ~db.table.isRehashing
    /\ history.filled < Min({MgRoom, MaxLargeFill})
    /\ db' = [db EXCEPT !.table =
                 setMany(@, history.filled + 1,
                         Min({history.filled + FillBatch, MgRoom, MaxLargeFill}))]
    /\ history' = [history EXCEPT
           !.filled = Min({history.filled + FillBatch, MgRoom, MaxLargeFill}),
           !.prev = db.table,
           !.call = NoMgCall]
    /\ mgRest

\* table.set(k, v) is called for the next key never stored so far, when
\* there is no table yet, when the key is one too many for the table, or
\* while the table is rehashing.
MgFillCall ==
    /\ history.call.at = "idle"
    /\ history.ops = 0
    /\ history.filled < MaxLargeFill
    /\ db.table.isRehashing \/ history.filled >= MgRoom
    /\ db' = db
    /\ history' = [history EXCEPT
           !.filled = @ + 1,
           !.prev = db.table,
           !.call = MgCall("set", LargeKey(history.filled + 1),
                           createString(<<"v">>))]
    /\ mgRest

\* table.set(key, value), table.del(key) or table.rehashStep() is called,
\* at one of the two moments the model stops filling the table at.
MgOpCall ==
    /\ history.call.at = "idle"
    /\ history.ops < MaxMgOps
    /\ history.filled \in {MaxFill, MaxLargeFill}
    /\ db' = db
    /\ \E op \in {"set", "del", "step"} : \E key \in LargeKeys :
           /\ op = "step" => key = LargeKey(1)
           /\ history' = [history EXCEPT
                  !.ops = @ + 1,
                  !.prev = db.table,
                  !.call = MgCall(op, key,
                                  IF op = "set" THEN createString(<<"w">>)
                                  ELSE NoData)]
    /\ mgRest

\* One turn of the loop of rehashStep: migrateOneSlot().
MgMigrate ==
    /\ history.call.at = "rehashStep"
    /\ history.call.left > 0
    /\ db.table.isRehashing
    /\ mgStep(migrateOneSlot(db.table), [history.call EXCEPT !.left = @ - 1])

\* rehashStep returns: the table is not rehashing, or the batch is done.
MgReturn ==
    /\ history.call.at = "rehashStep"
    /\ history.call.left = 0 \/ ~db.table.isRehashing
    /\ mgStep(db.table,
              [history.call EXCEPT
                  !.at = CASE history.call.op = "set" -> "delFromTable"
                           [] history.call.op = "del" -> "delFromBoth"
                           [] OTHER -> "idle"])

\* set: delFromTable(rehash_, key, h) while rehashing.
MgSetDrop ==
    /\ history.call.at = "delFromTable"
    /\ mgStep(dropFromRehash(db.table, history.call.key, hash(history.call.key)),
              [history.call EXCEPT !.at = "insert"])

\* set: the primary table is allocated if there is none, the value is
\* stored in it and triggerRehash() is called when the load factor is passed.
MgSetInsert ==
    /\ history.call.at = "insert"
    /\ mgStep(setInPrimary(allocIfNone(db.table), history.call.key,
                           history.call.value, hash(history.call.key)),
              [history.call EXCEPT !.at = "idle"])

\* del: delFromTable on primary_, then on rehash_.
MgDel ==
    /\ history.call.at = "delFromBoth"
    /\ mgStep(delFromBoth(db.table, history.call.key,
                          hash(history.call.key)).ht,
              [history.call EXCEPT !.at = "idle"])

NextMigrate ==
    \/ MgFill
    \/ MgFillCall
    \/ MgOpCall
    \/ MgMigrate
    \/ MgReturn
    \/ MgSetDrop
    \/ MgSetInsert
    \/ MgDel

SpecMigrate == InitMigrate /\ [][NextMigrate]_vars

\* The steps of a call make together what the call makes.
MgStepsMakeCall ==
    (history.call.at = "idle" /\ history.call.op # "none") =>
        db.table = CASE history.call.op = "set" ->
                            htSet(history.call.before, history.call.key,
                                  history.call.value)
                     [] history.call.op = "del" ->
                            htDel(history.call.before, history.call.key).ht
                     [] OTHER -> rehashStep(history.call.before, kRehashBatchSize)

\* The keys of the entries chained in the slots of a table.
KeysIn(table) ==
    UNION {{table.slots[i][j].key : j \in 1..Len(table.slots[i])} :
           i \in 1..Len(table.slots)}

\* The number of entries chained in the slots of a table.
Chained(table) ==
    Cardinality(UNION {{<<i, j>> : j \in 1..Len(table.slots[i])} :
                       i \in 1..Len(table.slots)})

\* No key has two entries in the table ht, in one of its tables or one in
\* each: there are as many keys as entries.
NoDuplicate(ht) ==
    Cardinality(KeysIn(ht.primary) \cup KeysIn(ht.rehash))
        = Chained(ht.primary) + Chained(ht.rehash)

\* C27: no key is in the primary table and in the table the rehash
\* migrates from, and no table holds two entries of one key: between the
\* calls, and within set, del and rehashStep after each slot they migrate
\* and after set has taken the key out of the table the rehash migrates
\* from.
C27_NoKeyTwice == NoDuplicate(db.table)

\* set is about to store a key it has just taken out of the table the
\* rehash migrates from, after it migrated a batch of slots; the rehash
\* goes on, and the key is in neither table.
C27_Witness ==
    /\ history.call.op = "set"
    /\ history.call.at = "insert"
    /\ history.filled = MaxLargeFill
    /\ db.table.isRehashing
    /\ findInTable(history.prev.rehash, history.call.key,
                   hash(history.call.key)).found
    /\ ~find(db.table, history.call.key).found
    /\ find(history.call.before, history.call.key).found

RECURSIVE IsPowerOfTwo(_)
IsPowerOfTwo(n) ==
    n = 1 \/ (n > 1 /\ n % 2 = 0 /\ IsPowerOfTwo(n \div 2))

\* A table is unallocated, or has a power of two of slots and the mask of
\* that capacity.
WellSized(table) ==
    \/ table = NoTable
    \/ /\ IsPowerOfTwo(table.capacity)
       /\ table.mask = table.capacity - 1
       /\ Len(table.slots) = table.capacity

\* Every entry of a table is chained in the slot hashCode & mask, the hash
\* code being the hash of its key.
InOwnSlots(table) ==
    \A i \in 1..Len(table.slots) : \A j \in 1..Len(table.slots[i]) :
        /\ table.slots[i][j].hashCode = hash(table.slots[i][j].key)
        /\ slotOf(table, table.slots[i][j].hashCode) + 1 = i

\* The shape of the two tables of a HashTable.
WellFormed(ht) ==
    /\ WellSized(ht.primary) /\ WellSized(ht.rehash)
    /\ ht.primary # NoTable => ht.primary.capacity >= kHTInitialCapacity
    /\ ht.isRehashing =>
           /\ ht.rehash # NoTable
           /\ ht.primary.capacity = 2 * ht.rehash.capacity
    /\ ~ht.isRehashing => ht.rehash = NoTable
    /\ InOwnSlots(ht.primary) /\ InOwnSlots(ht.rehash)
    /\ \A i \in 1..Min({ht.rehashIdx, Len(ht.rehash.slots)}) :
           ht.rehash.slots[i] = <<>>

\* The last step made a table that was not rehashing a rehashing one.
RehashStarted == ~history.prev.isRehashing /\ db.table.isRehashing

\* C28: every allocated table has a power of two of slots (primary at
\* least 4) and mask = capacity - 1; while rehashing primary has twice the
\* slots of rehash; while not rehashing there is no rehash table; every
\* entry is chained in the slot hash & mask of its table; the rehash slots
\* below rehashIdx are empty; and a rehash starts only with the insertion
\* of a new key by set, no rehash being in progress, that makes the size of
\* the table more than twice its capacity.
C28_TablesWellFormed ==
    /\ WellFormed(db.table)
    /\ RehashStarted =>
           /\ history.call.op = "set" /\ history.call.at = "idle"
           /\ ~find(history.prev, history.call.key).found
           /\ db.table.rehash.size = history.prev.primary.size + 1
           /\ db.table.rehash.size
                  > kMaxLoadFactorNum * db.table.rehash.capacity

\* A rehash of the 256-slot table is under way: some slots are migrated,
\* some are not, and both tables hold entries.
C28_Witness ==
    /\ db.table.isRehashing
    /\ db.table.rehash.capacity = 2 * kRehashBatchSize
    /\ db.table.rehashIdx > 0
    /\ db.table.rehash.size > 0
    /\ db.table.primary.size > 0

\* The insertion of the 513th key has just started the rehash of the
\* 256-slot table.
C28_WitnessStart ==
    /\ RehashStarted
    /\ history.filled = MaxLargeFill
    /\ db.table.primary.capacity = 4 * kRehashBatchSize

\* The batch sizes rehashStep is called with: the one of set, del and the
\* reactor's tick, and a small one.
MgBatches == {3, kRehashBatchSize}

\* ceil(n / k)
CeilDiv(n, k) == (n + k - 1) \div k

\* The table after n calls of rehashStep(k).
RECURSIVE stepped(_, _, _)
stepped(ht, k, n) ==
    IF n = 0 THEN ht
    ELSE Bind(rehashStep(ht, k), LAMBDA t : stepped(t, k, n - 1))

\* C29: while a rehash is in progress the size of the table it migrates
\* from never grows; the rehash has completed, with that table freed and
\* the flag cleared, when ceil(rehash.capacity / K) calls of rehashStep(K)
\* have returned since it started, be they the calls set and del begin
\* with or calls of their own; and rehashStep of a table that is not
\* rehashing leaves it as it is.
C29_RehashCompletes ==
    /\ (history.prev.isRehashing /\ db.table.isRehashing) =>
           db.table.rehash.size <= history.prev.rehash.size
    /\ db.table.isRehashing =>
           history.returned
               < CeilDiv(db.table.rehash.capacity, kRehashBatchSize)
    /\ RehashStarted =>
           \A k \in MgBatches :
               LET done == stepped(db.table, k,
                                   CeilDiv(db.table.rehash.capacity, k))
               IN  ~done.isRehashing /\ done.rehash = NoTable
    /\ ~db.table.isRehashing =>
           /\ db.table.rehash = NoTable
           /\ \A k \in MgBatches : rehashStep(db.table, k) = db.table

\* The second call of rehashStep since the rehash of the 256-slot table
\* started has returned, and the rehash is over: the first call, made by
\* set or del or on its own, had left it in progress with some slots
\* migrated.
C29_Witness ==
    /\ history.filled = MaxLargeFill
    /\ history.returned = CeilDiv(2 * kRehashBatchSize, kRehashBatchSize)
    /\ history.call.at # "rehashStep"
    /\ history.call.before.isRehashing
    /\ history.call.before.rehashIdx > 0
    /\ ~db.table.isRehashing

\* ---------------------------------------------------------------------
\* The TTLHeap under push, update, remove and popExpired, with the last
\* call and the heap it was made on kept in history.

HcKeys == {<<"a">>, <<"b">>, <<"c">>, <<"d">>}

NoHeapCall ==
    [op |-> "none", key |-> <<>>, expireAtMs |-> 0, before |-> NewTTLHeap]

InitHeapCalls ==
    /\ db = NewDatabase
    /\ now = 0
    /\ connFresh
    /\ pc = "idle"
    /\ epoll = {}
    /\ events = {}
    /\ wire = <<>>
    /\ peerClosed = FALSE
    /\ aof = NoAOF
    /\ history = NoHeapCall

heapCalled(op, key, expireAtMs, h) ==
    /\ db' = [db EXCEPT !.ttlHeap = h]
    /\ history' = [op |-> op, key |-> key, expireAtMs |-> expireAtMs,
                   before |-> db.ttlHeap]

\* ttlHeap.push(key, expireAtMs)
HcPush ==
    /\ \E key \in HcKeys : \E expireAtMs \in HeapDeadlines :
           heapCalled("push", key, expireAtMs,
                      heapPush(db.ttlHeap, key, expireAtMs))
    /\ UNCHANGED <<now, connVars, pc, epoll, events, wire, peerClosed, aof>>

\* ttlHeap.update(key, newExpireAtMs)
HcUpdate ==
    /\ \E key \in HcKeys : \E newExpireAtMs \in HeapDeadlines :
           heapCalled("update", key, newExpireAtMs,
                      heapUpdate(db.ttlHeap, key, newExpireAtMs))
    /\ UNCHANGED <<now, connVars, pc, epoll, events, wire, peerClosed, aof>>

\* ttlHeap.remove(key)
HcRemove ==
    /\ \E key \in HcKeys :
           heapCalled("remove", key, 0, heapRemove(db.ttlHeap, key))
    /\ UNCHANGED <<now, connVars, pc, epoll, events, wire, peerClosed, aof>>

\* ttlHeap.popExpired(nowMs, maxWork)
HcPopExpired ==
    /\ \E nowMs \in 0..MaxDeadline : \E maxWork \in HeapWorks :
           heapCalled("popExpired", <<>>, nowMs,
                      popExpired(db.ttlHeap, nowMs, maxWork, <<>>).h)
    /\ UNCHANGED <<now, connVars, pc, epoll, events, wire, peerClosed, aof>>

NextHeapCalls == HcPush \/ HcUpdate \/ HcRemove \/ HcPopExpired

SpecHeapCalls == InitHeapCalls /\ [][NextHeapCalls]_vars

\* keyToIndex_ has one entry for each element of heap_, and it is the
\* element's index; no key is in heap_ twice.
Indexed(h) ==
    /\ Cardinality(HeapHeld(h)) = Len(h.heap)
    /\ DOMAIN h.keyToIndex = HeapHeld(h)
    /\ Cardinality(DOMAIN h.keyToIndex) = Len(h.heap)
    /\ \A i \in 1..Len(h.heap) : h.keyToIndex[h.heap[i].key] = i - 1

\* The heap holds the same keys with the same deadlines as before, but for
\* key, which it holds with this deadline.
HoldsNow(h, before, key, expireAtMs) ==
    /\ HeapHeld(h) = HeapHeld(before) \cup {key}
    /\ HeapDeadlineOf(h, key) = expireAtMs
    /\ \A other \in HeapHeld(before) \ {key} :
           HeapDeadlineOf(h, other) = HeapDeadlineOf(before, other)

\* C30: after any interleaving of push, update, remove and popExpired no
\* key is in the heap twice, keyToIndex has exactly one entry for each
\* element of the heap, the element's index, and as many entries as the
\* heap has elements; push of a key that is held changes its deadline and
\* adds no entry, update of a key that is not held inserts it, and remove
\* of a key that is not held changes nothing.
C30_HeapIndexed ==
    /\ Indexed(db.ttlHeap)
    /\ history.op \in {"push", "update"} =>
           /\ HoldsNow(db.ttlHeap, history.before, history.key,
                       history.expireAtMs)
           /\ Len(db.ttlHeap.heap)
                  = Len(history.before.heap)
                      + (IF history.key \in HeapHeld(history.before)
                         THEN 0 ELSE 1)
    /\ (history.op = "remove" /\ history.key \notin HeapHeld(history.before))
           => db.ttlHeap = history.before

\* push of a key that the heap of four held has given it a later deadline
\* and moved it from the root down the heap.
C30_Witness ==
    /\ history.op = "push"
    /\ Len(history.before.heap) = 4
    /\ history.before.heap[1].key = history.key
    /\ history.before.heap[1].expireAtMs < history.expireAtMs
    /\ Len(db.ttlHeap.heap) = 4
    /\ db.ttlHeap.keyToIndex[history.key] > 0

\* ------------------------------------------------------------------------
\* SpecSwap: a server with an AOFWriter whose checkRewriteComplete is taken
\* one system call at a time.  Commands are dispatched and logged and
\* BGREWRITEAOF triggers rewrites between the polls; the child runs, ends
\* or is killed at any moment.  history.poll is the poll in progress: where
\* it is, the frame it is to write next, the system calls it has made, the
\* writer as the poll found it and as its last step left it, what its
\* system calls do, whether rename() has succeeded and whether the old fd_
\* has been closed.  history.last is
\* the last call made on the writer between polls, with the writer before
\* and after it and whether the call before it was a triggerRewrite whose
\* fork() failed; history.logged is the frames of the commands passed to
\* log since the last fork, which a poll copies when it starts.
\* ------------------------------------------------------------------------

MaxSwOps == 2
MaxSwRewrites == 2

SwCommands == {<<nSET, kK, kV>>, <<nSET, kM, <<"1">>>>, <<nGET, kK>>}

NoPoll ==
    [at |-> "idle", j |-> 0, calls |-> <<>>, before |-> NoAOF, after |-> NoAOF,
     sys |-> "ok", renamed |-> FALSE, closed |-> FALSE, logged |-> <<>>]

NoSwCall ==
    [op |-> "none", args |-> <<>>, before |-> NoAOF, after |-> NoAOF,
     forked |-> FALSE, forkFailed |-> FALSE, logCalled |-> FALSE]

\* dispatch, having answered d, calls log(args): see logAfter.
LogCalled(d, args) ==
    d.handler # "none" /\ ~d.threw /\ table_[ToUpperStr(args[1])].isWrite

\* The last call was a triggerRewrite whose fork() failed.
ForkFailed(l) == l.op = "trigger" /\ ~l.before.isRewriting /\ ~l.forked

InitSwap ==
    /\ db = NewDatabase
    /\ now = StartMs
    /\ connFresh
    /\ pc = "serving"
    /\ epoll = {}
    /\ events = {}
    /\ wire = <<>>
    /\ peerClosed = FALSE
    /\ aof = NewAOFWriter
    /\ history = [ops |-> 0, rewrites |-> 0, poll |-> NoPoll,
                  last |-> NoSwCall, logged |-> <<>>]

swRest == UNCHANGED <<now, connVars, pc, epoll, events, wire, peerClosed>>

\* The state once commandTable.dispatch(db, conn, args) has answered d.
executedSw(args, d) ==
    /\ db' = d.db
    /\ aof' = logAfter(d, aof, args)
    /\ history' = [history EXCEPT
           !.ops = @ + 1,
           !.last = [NoSwCall EXCEPT !.op = "command", !.args = args,
                                     !.before = aof,
                                     !.after = logAfter(d, aof, args),
                                     !.logCalled = LogCalled(d, args)],
           !.logged = IF LogCalled(d, args)
                      THEN Append(@, formatRespCommand(args)) ELSE @]

\* One command is dispatched and logged.
SwCommand ==
    /\ history.poll.at = "idle"
    /\ history.ops < MaxSwOps
    /\ \E args \in SwCommands : executedSw(args, dispatch(db, now, args))
    /\ swRest

\* BGREWRITEAOF: aofWriter.triggerRewrite(db).
SwTrigger ==
    /\ history.poll.at = "idle"
    /\ history.rewrites < MaxSwRewrites
    /\ \E forked \in BOOLEAN :
           /\ aof' = triggerRewrite(aof, db, forked)
           /\ history' = [history EXCEPT
                  !.rewrites = @ + 1,
                  !.last = [NoSwCall EXCEPT
                               !.op = "trigger", !.before = aof,
                               !.after = triggerRewrite(aof, db, forked),
                               !.forked = forked,
                               !.forkFailed = ForkFailed(history.last)],
                  !.logged = IF aof.isRewriting THEN @ ELSE <<>>]
    /\ UNCHANGED db
    /\ swRest

\* A step of the poll: the writer it leaves and the poll then.
swStep(w, poll) ==
    /\ aof' = w
    /\ history' = [history EXCEPT !.poll = [poll EXCEPT !.after = w]]
    /\ UNCHANGED db
    /\ swRest

\* checkRewriteComplete is called with a child recorded: waitpid(WNOHANG)
\* finds it running (return), exited with 0, or failed (unlink, and the
\* rewrite state is cleared).
SwWaitpid ==
    /\ history.poll.at = "idle"
    /\ aof.rewriteChildPid >= 0
    /\ \E sys \in SwapOutcomes :
           LET poll == [NoPoll EXCEPT !.calls = <<"waitpid">>, !.before = aof,
                                      !.sys = sys, !.logged = history.logged]
           IN  IF aof.child.at # "exited" THEN swStep(aof, poll)
               ELSE IF aof.child.status = 0
               THEN swStep(aof, [poll EXCEPT !.at = "open"])
               ELSE swStep(cleared([aof EXCEPT !.temp = <<>>,
                                               !.tempExists = FALSE]),
                           [poll EXCEPT !.calls = Append(@, "unlink")])

\* open(rewriteTempFile_, O_WRONLY | O_APPEND)
SwOpen ==
    /\ history.poll.at = "open"
    /\ IF ~aof.tempExists \/ history.poll.sys = "open"
       THEN swStep(cleared(aof),
                   [history.poll EXCEPT !.at = "idle", !.calls = Append(@, "open")])
       ELSE swStep(aof, [history.poll EXCEPT !.at = "write", !.j = 1,
                                             !.calls = Append(@, "open")])

\* writeAll(tmpFd, entry) for the next frame of rewriteBuffer_
SwWrite ==
    /\ history.poll.at = "write"
    /\ history.poll.j <= Len(aof.rewriteBuffer)
    /\ swStep([aof EXCEPT !.temp = IF history.poll.sys = "write" THEN @
                                   ELSE @ \o aof.rewriteBuffer[history.poll.j]],
              [history.poll EXCEPT !.j = @ + 1, !.calls = Append(@, "write")])

\* fsync(tmpFd) and close(tmpFd), every frame having been passed to writeAll.
SwFsyncClose ==
    /\ history.poll.at = "write"
    /\ history.poll.j > Len(aof.rewriteBuffer)
    /\ swStep(aof, [history.poll EXCEPT !.at = "rename",
                                        !.calls = @ \o <<"fsync", "close">>])

\* rename(rewriteTempFile_, filename_)
SwRename ==
    /\ history.poll.at = "rename"
    /\ IF history.poll.sys = "rename"
       THEN swStep(cleared(aof),
                   [history.poll EXCEPT !.at = "idle", !.calls = Append(@, "rename")])
       ELSE swStep([aof EXCEPT !.file = aof.temp, !.synced = Len(aof.temp),
                               !.temp = <<>>, !.tempExists = FALSE],
                   [history.poll EXCEPT !.at = "close", !.renamed = TRUE,
                                        !.calls = Append(@, "rename")])

\* close(fd_)
SwClose ==
    /\ history.poll.at = "close"
    /\ swStep(aof, [history.poll EXCEPT !.at = "reopen", !.closed = TRUE,
                                        !.calls = Append(@, "close(fd_)")])

\* fd_ = open(filename_, O_WRONLY | O_CREAT | O_APPEND), and the rewrite
\* state is cleared.
SwReopen ==
    /\ history.poll.at = "reopen"
    /\ swStep(cleared([aof EXCEPT
                          !.fd = IF history.poll.sys = "reopen" THEN -1 ELSE 3]),
              [history.poll EXCEPT !.at = "idle",
                                   !.calls = Append(@, "open(filename_)")])

NextSwap ==
    \/ SwCommand
    \/ SwTrigger
    \/ ChildOpen
    \/ ChildValue
    \/ ChildTtl
    \/ ChildExit
    \/ ChildKilled
    \/ SwWaitpid
    \/ SwOpen
    \/ SwWrite
    \/ SwFsyncClose
    \/ SwRename
    \/ SwClose
    \/ SwReopen

SpecSwap == InitSwap /\ [][NextSwap]_vars

\* A poll has returned.
Polled == history.poll.at = "idle" /\ history.poll.calls # <<>>

\* The steps of a poll make together what checkRewriteComplete makes.
SwStepsMakePoll ==
    Polled =>
        history.poll.after
            = checkRewriteComplete(history.poll.before, history.poll.sys)

\* s is the beginning of t.
IsPrefix(s, t) == Len(s) <= Len(t) /\ SubSeq(t, 1, Len(s)) = s

\* The system calls of a poll that finds the child exited with 0 and
\* succeeds, for a rewrite buffer of n frames.
SwapCalls(n) ==
    <<"waitpid", "open">> \o [i \in 1..n |-> "write"]
        \o <<"fsync", "close", "rename", "close(fd_)", "open(filename_)">>

\* What C31 says of a poll p that found the child exited with 0.
SwapInOrder(p) ==
    /\ IsPrefix(p.calls, SwapCalls(Len(p.before.rewriteBuffer)))
    /\ ~p.renamed =>
           /\ ~p.closed
           /\ p.after.fd = p.before.fd
           /\ p.after.file = p.before.file
    /\ p.renamed =>
           p.after.file
               = p.before.temp \o ConcatFrames(p.before.rewriteBuffer, 1)
    /\ (p.at = "idle" /\ p.sys \in {"open", "write", "rename"}) =>
           /\ p.after.fd = p.before.fd
           /\ p.after.file = p.before.file

\* C31: a poll that finds the child exited with 0 appends every frame of
\* the rewrite buffer to the temporary file, fsyncs and closes it, renames
\* it over the AOF and only then closes fd_ and opens the new file; fd_ is
\* never closed or replaced, nor the AOF changed, before rename() has
\* succeeded; and when the append of the buffer or the rename fails, fd_
\* and the AOF stay as they were.
C31_SwapInOrder ==
    (history.poll.calls # <<>>
     /\ history.poll.before.child.at = "exited"
     /\ history.poll.before.child.status = 0)
        => SwapInOrder(history.poll)

\* A poll has swapped the files, with a frame of the rewrite buffer at the
\* end of the new AOF, and has opened the new file.
C31_Witness ==
    /\ Polled
    /\ history.poll.sys = "ok"
    /\ history.poll.renamed /\ history.poll.closed
    /\ history.poll.before.rewriteBuffer # <<>>
    /\ history.poll.before.temp # <<>>
    /\ history.poll.calls = SwapCalls(Len(history.poll.before.rewriteBuffer))
    /\ aof.fd = 3
    /\ aof.file = history.poll.before.temp
                      \o ConcatFrames(history.poll.before.rewriteBuffer, 1)

\* The writes of the append failed and the poll swapped the files all the
\* same: the frame logged during the rewrite is in no file.
C31_WitnessWriteError ==
    /\ Polled
    /\ history.poll.sys = "write"
    /\ history.poll.before.rewriteBuffer # <<>>
    /\ history.poll.renamed
    /\ history.poll.after.file = history.poll.before.temp
    /\ history.poll.after.fd = 3

\* C32: there is at most one rewrite child: a child exists exactly when a
\* child pid is recorded, which between the calls made on the writer (and
\* between the system calls of a poll) is exactly when the rewriting flag
\* is set; triggerRewrite while a rewrite is in
\* flight leaves the writer as it is (no fork, the rewrite buffer and the
\* temporary file kept); a fork is made only when there is no child; and
\* when fork() fails the flag is cleared, so that the next triggerRewrite
\* whose fork succeeds starts a rewrite.
C32_OneRewriteChild ==
    /\ aof.isRewriting <=> aof.rewriteChildPid >= 0
    /\ aof.child.at # "none" <=> aof.rewriteChildPid >= 0
    /\ history.last.op = "trigger" =>
           /\ history.last.before.isRewriting =>
                  history.last.after = history.last.before
           /\ ForkFailed(history.last) =>
                  /\ ~history.last.after.isRewriting
                  /\ history.last.after.rewriteChildPid < 0
                  /\ history.last.after.child.at = "none"
           /\ history.last.after.child # history.last.before.child =>
                  /\ history.last.before.child.at = "none"
                  /\ history.last.forked
           /\ (history.last.forkFailed /\ history.last.forked) =>
                  /\ history.last.after.isRewriting
                  /\ history.last.after.child.at = "open"

\* triggerRewrite was called while the child of a rewrite ran, a frame
\* being in the rewrite buffer and the temporary file written: nothing
\* changed.
C32_Witness ==
    /\ history.last.op = "trigger"
    /\ history.last.forked
    /\ history.last.before.isRewriting
    /\ history.last.before.child.at = "ttl"
    /\ history.last.before.rewriteBuffer # <<>>
    /\ history.last.before.temp # <<>>
    /\ aof = history.last.before

\* A triggerRewrite whose fork() failed is followed by one that starts a
\* rewrite.
C32_WitnessRetry ==
    /\ history.last.op = "trigger"
    /\ history.last.forkFailed
    /\ history.last.forked
    /\ aof.isRewriting

\* C33: while a rewrite is in flight, the child running or exited and not
\* yet polled, log writes the frame of every command passed to it at the
\* end of the AOF and appends it once to the rewrite buffer, which holds
\* the frames logged since the fork in the order of the calls; and once a
\* poll has put the temporary file in the place of the AOF, the AOF is what
\* the child wrote followed by exactly those frames in that order.
C33_LoggedDuringRewrite ==
    /\ (history.last.op = "command" /\ history.last.logCalled
        /\ history.last.before.isRewriting) =>
           /\ history.last.after.file
                  = history.last.before.file
                        \o formatRespCommand(history.last.args)
           /\ history.last.after.rewriteBuffer
                  = Append(history.last.before.rewriteBuffer,
                           formatRespCommand(history.last.args))
    /\ aof.isRewriting => aof.rewriteBuffer = history.logged
    /\ history.poll.renamed =>
           history.poll.after.file
               = history.poll.before.temp
                     \o ConcatFrames(history.poll.logged, 1)

\* SET m 1 was logged after the child had exited and before the poll; the
\* poll has swapped the files, and the frame ends the new AOF after the
\* SET k v of the child.
C33_Witness ==
    /\ Polled
    /\ history.poll.renamed
    /\ history.poll.sys = "ok"
    /\ history.last.op = "command"
    /\ history.last.args = <<nSET, kM, <<"1">>>>
    /\ history.last.before.child.at = "exited"
    /\ history.last.before.isRewriting
    /\ history.poll.before = history.last.after
    /\ aof.file = formatRespCommand(<<nSET, kK, kV>>)
                      \o formatRespCommand(<<nSET, kM, <<"1">>>>)

\* A command was passed to log during a rewrite that a writer without a
\* file (fd_ = -1 after an open() that failed) was asked for, and the poll
\* has swapped the files: the command is in no file.
C33_WitnessDisabled ==
    /\ Polled
    /\ history.poll.renamed
    /\ history.poll.before.fd < 0
    /\ history.poll.logged # <<>>
    /\ history.poll.before.rewriteBuffer = <<>>

\* ------------------------------------------------------------------------
\* AOFWriter::log and AOFWriter::tick with the fsync policy of the writer
\* and with system calls that may fail.
\* ------------------------------------------------------------------------

FsyncPolicies == {"ALWAYS", "EVERYSEC", "NO"}

\* AOFWriter::writeAll on a file: the first wrote bytes of buf reach the file, all
\* of them unless a write() fails with an error other than EINTR; the
\* error is reported on stderr and writeAll returns.
writeAll(file, buf, wrote) == file \o SubSeq(buf, 1, wrote)

\* AOFWriter::log under a policy: wrote is the number of bytes writeAll
\* gets into the file, fsynced whether the fsync of ALWAYS succeeds (its result is not
\* looked at).
logOn(w, args, policy, wrote, fsynced) ==
    IF w.fd < 0 THEN w
    ELSE LET file == writeAll(w.file, formatRespCommand(args), wrote)
         IN  [w EXCEPT !.file = file,
                       !.synced = IF policy = "ALWAYS" /\ fsynced
                                  THEN Len(file) ELSE @,
                       !.rewriteBuffer = IF w.isRewriting
                                         THEN Append(@, formatRespCommand(args))
                                         ELSE @]

\* AOFWriter::tick under a policy, elapsed seconds after the last fsync.
tickOn(w, policy, elapsed, fsynced) ==
    IF policy # "EVERYSEC" THEN w
    ELSE IF w.fd < 0 THEN w
    ELSE IF elapsed >= 1 /\ fsynced THEN [w EXCEPT !.synced = Len(w.file)]
    ELSE w

\* ------------------------------------------------------------------------
\* SpecDisk: a server whose AOFWriter meets write and fsync errors.
\* history.policy is the policy of the writer, history.failed whether a
\* write() or an fsync() on the AOF has failed so far, history.last the
\* last call with the database and the writer before it and whether an
\* error had occurred before it.
\* ------------------------------------------------------------------------

MaxDkOps == 3

DkCommands == {<<nSET, kK, kV>>, <<nDEL, kK>>, <<nGET, kK>>}

NoDkCall ==
    [op |-> "none", args |-> <<>>, db |-> NewDatabase, before |-> NoAOF,
     failedBefore |-> FALSE, logCalled |-> FALSE]

InitDisk ==
    /\ db = NewDatabase
    /\ now = StartMs
    /\ connFresh
    /\ pc = "serving"
    /\ epoll = {}
    /\ events = {}
    /\ wire = <<>>
    /\ peerClosed = FALSE
    /\ aof = NewAOFWriter
    /\ \E policy \in FsyncPolicies :
           history = [policy |-> policy, ops |-> 0, failed |-> FALSE,
                      last |-> NoDkCall]

\* The state once dispatch has answered d and, for a write command that
\* was executed, has called log.
executedDk(args, d, wrote, fsynced) ==
    /\ db' = d.db
    /\ aof' = IF LogCalled(d, args)
              THEN logOn(aof, args, history.policy, wrote, fsynced)
              ELSE aof
    /\ history' = [history EXCEPT
           !.ops = @ + 1,
           !.failed = \/ @
                      \/ /\ LogCalled(d, args)
                         /\ aof.fd >= 0
                         /\ \/ wrote < Len(formatRespCommand(args))
                            \/ history.policy = "ALWAYS" /\ ~fsynced,
           !.last = [op |-> "command", args |-> args, db |-> db,
                     before |-> aof, failedBefore |-> history.failed,
                     logCalled |-> LogCalled(d, args)]]

\* One command is dispatched and logged: the write() of the frame succeeds,
\* or fails at once or after one byte, and so may the fsync.
DkCommand ==
    /\ history.ops < MaxDkOps
    /\ \E args \in DkCommands :
       \E wrote \in {0, 1, Len(formatRespCommand(args))} :
       \E fsynced \in BOOLEAN :
           executedDk(args, dispatch(db, now, args), wrote, fsynced)
    /\ UNCHANGED <<now, connVars, pc, epoll, events, wire, peerClosed>>

\* The timer callback: aofWriter.tick(), whose fsync succeeds or fails.
DkTick ==
    /\ \E elapsed \in {0, 1} : \E fsynced \in BOOLEAN :
           /\ aof' = tickOn(aof, history.policy, elapsed, fsynced)
           /\ history' = [history EXCEPT
                  !.failed = \/ @
                             \/ /\ history.policy = "EVERYSEC"
                                /\ aof.fd >= 0 /\ elapsed >= 1 /\ ~fsynced,
                  !.last = [NoDkCall EXCEPT !.op = "tick", !.before = aof,
                                            !.failedBefore = history.failed]]
    /\ UNCHANGED <<db, now, connVars, pc, epoll, events, wire, peerClosed>>

NextDisk == DkCommand \/ DkTick

SpecDisk == InitDisk /\ [][NextDisk]_vars

\* Without errors, and under EVERYSEC, logOn and tickOn are log and tick.
LogOnIsLog ==
    \A args \in DkCommands : \A elapsed \in {0, 1} :
        /\ logOn(aof, args, "EVERYSEC", Len(formatRespCommand(args)), TRUE)
               = log(aof, args)
        /\ tickOn(aof, "EVERYSEC", elapsed, TRUE) = tick(aof, elapsed)

\* C34: once a write() or an fsync() on the AOF has failed the writer is
\* disabled, fd_ negative, for good: a log that follows leaves the file as
\* it is; and every command is executed on the keyspace all the same.
C34_ErrorDisables ==
    /\ history.failed => aof.fd < 0
    /\ (history.last.op = "command" /\ history.last.failedBefore) =>
           aof.file = history.last.before.file
    /\ history.last.op = "command" =>
           db = dispatch(history.last.db, now, history.last.args).db

\* After a write error that left one byte of a frame in the AOF, the writer
\* is still enabled and a later command has been appended to the file.
C34_Witness ==
    /\ history.last.op = "command"
    /\ history.last.failedBefore
    /\ history.last.logCalled
    /\ history.last.before.file = <<"*">>
    /\ aof.fd >= 0
    /\ Len(aof.file) > Len(formatRespCommand(history.last.args))

\* ------------------------------------------------------------------------
\* SpecDurable: the reactor of Spec with an AOFWriter attached, under each
\* fsync policy and with write() and fsync() on the AOF that may fail.
\* history keeps the fields of Spec that the shared actions maintain;
\* history.logged has one entry per call of log on an enabled writer: the
\* number of reply bytes queued before the reply of the command (start),
\* the length of the AOF after the call (end) and whether the whole frame
\* was written (whole); history.log is the writer before and after the last
\* call of log.
\* ------------------------------------------------------------------------

MaxDuFrames == 2

DuFrames ==
    {[bytes |-> formatRespCommand(a), args |-> a] :
        a \in {<<nSET, kK, kV>>, <<nGET, kK>>}}

InitDurable ==
    /\ db = NewDatabase
    /\ now = StartMs
    /\ connFresh
    /\ pc = "poll"
    /\ epoll = {"IN"}
    /\ events = {}
    /\ wire = <<>>
    /\ peerClosed = FALSE
    /\ aof = NewAOFWriter
    /\ \E policy \in FsyncPolicies :
           history = [policy |-> policy, sent |-> <<>>, read |-> 0,
                      batch |-> 0, queued |-> 0, flushed |-> <<>>,
                      last |-> "none", failed |-> FALSE, logged |-> <<>>,
                      log |-> [before |-> NoAOF, after |-> NoAOF]]

\* The peer sends one more frame.
DuSend ==
    /\ pc = "poll"
    /\ Len(history.sent) < MaxDuFrames
    /\ \E f \in DuFrames :
           /\ wire' = wire \o f.bytes
           /\ history' = [history EXCEPT !.sent = Append(@, f)]
    /\ UNCHANGED <<db, now, connVars, pc, epoll, events, peerClosed, aof>>

\* The loop body once parser.parse has answered the command r and
\* commandTable.dispatch has answered d: the handler has queued the reply,
\* and dispatch has called log for a write command that was executed.
durablyDispatched(r, d, wrote, fsynced) ==
    /\ in_' = r.buf
    /\ db' = d.db
    /\ out_' = emitAll(out_, d.out, 1)
    /\ aof' = IF LogCalled(d, r.args)
              THEN logOn(aof, r.args, history.policy, wrote, fsynced)
              ELSE aof
    /\ history' = [history EXCEPT
           !.queued = Len(history.flushed) + readableBytes(emitAll(out_, d.out, 1)),
           !.last = "dispatch",
           !.failed = \/ @
                      \/ /\ LogCalled(d, r.args)
                         /\ aof.fd >= 0
                         /\ \/ wrote < Len(formatRespCommand(r.args))
                            \/ history.policy = "ALWAYS" /\ ~fsynced,
           !.logged = IF LogCalled(d, r.args) /\ aof.fd >= 0
                      THEN Append(@, [start |-> history.queued,
                                      end |-> Len(aof.file) + wrote,
                                      whole |-> wrote = Len(formatRespCommand(r.args))])
                      ELSE @,
           !.log = IF LogCalled(d, r.args)
                   THEN [before |-> aof,
                         after |-> logOn(aof, r.args, history.policy, wrote,
                                         fsynced)]
                   ELSE @]

\* parser.parse answers a command: commandTable.dispatch, with the write()
\* of the frame succeeding or failing at once or after one byte, and the
\* fsync succeeding or failing.
DuDispatch ==
    /\ pc = "parse"
    /\ parse(in_).ok
    /\ parse(in_).args # <<>>
    /\ \E wrote \in {0, 1, Len(formatRespCommand(parse(in_).args))} :
       \E fsynced \in BOOLEAN :
           durablyDispatched(parse(in_), dispatch(db, now, parse(in_).args),
                             wrote, fsynced)
    /\ UNCHANGED <<now, wantRead, wantWrite, wantClose, pc, epoll, events, wire,
                   peerClosed>>

\* The timer callback between two iterations: aofWriter.tick().
DuTick ==
    /\ pc = "poll"
    /\ \E elapsed \in {0, 1} : \E fsynced \in BOOLEAN :
           /\ aof' = tickOn(aof, history.policy, elapsed, fsynced)
           /\ history' = [history EXCEPT
                  !.last = "tick",
                  !.failed = \/ @
                             \/ /\ history.policy = "EVERYSEC"
                                /\ aof.fd >= 0 /\ elapsed >= 1 /\ ~fsynced]
    /\ UNCHANGED <<db, now, connVars, pc, epoll, events, wire, peerClosed>>

NextDurable ==
    \/ DuSend \/ ReadEvent \/ ParseIncomplete \/ DuDispatch
    \/ WriteEvent \/ WriteStep \/ FinishEvent \/ DuTick

SpecDurable == InitDurable /\ [][NextDurable]_vars

\* The command of the entry e of history.logged is durable: its whole frame
\* is in the part of the AOF that an fsync has covered.
Durable(e) == e.whole /\ aof.synced >= e.end

\* A byte of the reply of the command of e has been written to the socket.
ReplyObservable(e) == Len(history.flushed) > e.start

\* C35: under ALWAYS no byte of the reply of a logged command is written to
\* the socket before the frame of the command is appended to the AOF and
\* fsynced; under EVERYSEC and NO a call of log leaves the fsynced part of
\* the AOF as it was.
C35_DurableBeforeReply ==
    /\ history.policy = "ALWAYS" =>
           \A i \in 1..Len(history.logged) :
               ReplyObservable(history.logged[i]) => Durable(history.logged[i])
    /\ history.policy # "ALWAYS" =>
           history.log.after.synced = history.log.before.synced

\* The same while no write() and no fsync() on the AOF has failed.
DurableBeforeReplyUnlessFailed == ~history.failed => C35_DurableBeforeReply

\* Under ALWAYS the reply of a SET whose frame was not written in full has
\* reached the socket.
C35_Witness ==
    /\ history.policy = "ALWAYS"
    /\ history.logged # <<>>
    /\ ~history.logged[1].whole
    /\ history.flushed = <<"+", "O", "K">> \o CRLF

\* Under ALWAYS the reply of a SET has reached the socket after the frame
\* was written and fsynced.
C35_WitnessDurable ==
    /\ history.policy = "ALWAYS"
    /\ ~history.failed
    /\ history.logged # <<>>
    /\ Durable(history.logged[1])
    /\ ReplyObservable(history.logged[1])

\* Under EVERYSEC the reply of a SET has reached the socket while its frame
\* is in the AOF without an fsync.
C35_WitnessEverysec ==
    /\ history.policy = "EVERYSEC"
    /\ ~history.failed
    /\ history.logged # <<>>
    /\ ReplyObservable(history.logged[1])
    /\ ~Durable(history.logged[1])

\* ------------------------------------------------------------------------
\* SpecClose: the reactor of SpecIO serving a peer that sends up to
\* MaxClFrames SET commands and may shut down.  SpecCloseFair adds that the
\* loop runs the write branch and the end of every iteration it has begun,
\* that the socket of a connection
\* waiting for EPOLLOUT becomes writable, and that a write() on a writable
\* socket sooner or later transfers bytes or fails for good (epoll is
\* level-triggered: EPOLLOUT is reported while the socket buffer has room).
\* ------------------------------------------------------------------------

MaxClFrames == 2

\* The peer sends one more SET.
ClSend ==
    /\ pc = "poll"
    /\ ~peerClosed
    /\ Len(history.sent) < MaxClFrames
    /\ wire' = wire \o formatRespCommand(<<nSET, kK, <<"w">>>>)
    /\ history' = [history EXCEPT
           !.sent = Append(@, [bytes |-> formatRespCommand(<<nSET, kK, <<"w">>>>),
                               args |-> <<nSET, kK, <<"w">>>>])]
    /\ UNCHANGED <<db, now, connVars, pc, epoll, events, peerClosed, aof>>

NextClose ==
    \/ ClSend \/ ClientShutdown
    \/ IoReadEvent \/ ParseIncomplete \/ Dispatch
    \/ IoWriteEvent \/ IoWriteStep \/ FinishEvent \/ ErrorEvent

SpecClose == InitIO /\ [][NextClose]_vars

\* A handleWrite that shortens the outgoing buffer or ends the connection.
WriteProgress ==
    /\ IoWriteStep
    /\ readableBytes(out_') < readableBytes(out_) \/ wantClose'

SpecCloseFair ==
    /\ SpecClose
    /\ WF_vars(IoWriteEvent) /\ WF_vars(IoWriteStep) /\ WF_vars(FinishEvent)
    /\ SF_vars(WriteProgress)

\* The read branch of the iteration has returned.
ReadBranchOver == pc \in {"write", "finish", "poll"}

\* The step marks the connection for close.
Marked == ~wantClose /\ wantClose'

\* The step is a handleWrite that answered false.
WriteFailed ==
    /\ pc = "write"
    /\ history'.io.call = "write"
    /\ ~history'.io.alive

\* The step is the close check finding the read side ended and the
\* outgoing buffer empty.
AutoClose ==
    /\ pc = "finish"
    /\ ~wantRead
    /\ readableBytes(out_) = 0

\* The step handles EPOLLERR.
ErrorReported == pc = "poll" /\ pc' = "closed"

C36_WitnessWriteError ==
    /\ pc = "closed"
    /\ history.io.call = "write"
    /\ ~history.io.alive
    /\ readableBytes(out_) > 0

\* ------------------------------------------------------------------------
\* The capacity and the cursors of the Buffer of SpecBuf.
\* ------------------------------------------------------------------------

MaxDoublings == 3

\* c is 0, or the initial capacity doubled some number of times.
RECURSIVE Doubled(_, _)
Doubled(c, k) ==
    IF k = 0 THEN c = kInitialCapacity
    ELSE c = kInitialCapacity \/ (c % 2 = 0 /\ Doubled(c \div 2, k - 1))

IsCapacity(c) == c = 0 \/ Doubled(c, MaxDoublings)

\* The capacity is 0 or 4096 * 2^k, the last call has not lowered it, and
\* it is 0 only while nothing was allocated.
CapacityGrowsOnly ==
    /\ IsCapacity(in_.cap)
    /\ in_.cap >= history.before.cap
    /\ in_.cap = 0 => in_.data = <<>> /\ history.written = <<>>

\* C37, as claimed: the readable and the writable bytes add up to the
\* capacity, which is 0 for a fresh buffer and 4096 * 2^k afterwards and
\* never shrinks.
C37_ReadableAndWritableFillCap ==
    /\ readableBytes(in_) + writableBytes(in_) = in_.cap
    /\ CapacityGrowsOnly

\* C37, amended: the consumed bytes before the read cursor, the readable
\* and the writable bytes add up to the capacity (so the readable and the
\* writable bytes add up to it when the read cursor is 0, as in every empty
\* buffer), and the capacity is 0 or 4096 * 2^k and never shrinks.
C37_CursorReadableWritableFillCap ==
    /\ in_.readPos + readableBytes(in_) + writableBytes(in_) = in_.cap
    /\ readableBytes(in_) = 0 => writableBytes(in_) = in_.cap
    /\ CapacityGrowsOnly

\* One of two bytes was consumed: the read cursor is 1, a byte is readable
\* and 4094 are writable.
C37_Witness ==
    /\ history.op = "consume"
    /\ in_.readPos = 1
    /\ readableBytes(in_) = 1
    /\ writableBytes(in_) = kInitialCapacity - 2
    /\ in_.cap = kInitialCapacity

\* The capacity has been doubled twice by one call.
C37_WitnessGrown ==
    /\ history.op = "ensure"
    /\ history.before.cap = kInitialCapacity
    /\ in_.cap = 4 * kInitialCapacity
    /\ readableBytes(in_) > 0

\* C38: the cursors satisfy 0 <= r <= w <= cap; when they are equal both
\* are 0, so that an empty buffer has its whole capacity writable; after
\* ensureWritableBytes(n) at least n bytes are writable, for the requests
\* of BufLens (the read size of handleRead among them) and for the lengths
\* append asks for, so that the advanceWrite of append stays within cap.
C38_CursorsInBounds ==
    /\ 0 <= in_.readPos
    /\ in_.readPos <= in_.writePos
    /\ in_.writePos <= in_.cap
    /\ in_.readPos = in_.writePos =>
           /\ in_.readPos = 0
           /\ in_.writePos = 0
           /\ writableBytes(in_) = in_.cap
    /\ \A len \in BufLens :
           writableBytes(memEnsureWritableBytes(in_, len)) >= len
    /\ \A bytes \in BufData :
           /\ writableBytes(memEnsureWritableBytes(in_, Len(bytes))) >= Len(bytes)
           /\ memAppend(in_, bytes).writePos <= memAppend(in_, bytes).cap
    /\ history.op = "ensure" =>
           \E len \in BufLens :
               /\ in_ = memEnsureWritableBytes(history.before, len)
               /\ writableBytes(in_) >= len

\* The last readable byte of a buffer that had been consumed from was
\* consumed: both cursors are 0 again.
C38_Witness ==
    /\ history.op = "consume"
    /\ history.before.readPos > 0
    /\ history.before.writePos > history.before.readPos
    /\ in_.readPos = 0
    /\ in_.writePos = 0
    /\ writableBytes(in_) = kInitialCapacity

\* ensureWritableBytes(4096) has grown a buffer that held readable bytes
\* behind consumed ones.
C38_WitnessGrow ==
    /\ history.op = "ensure"
    /\ history.before.readPos > 0
    /\ readableBytes(history.before) > 0
    /\ in_.cap = 2 * history.before.cap
    /\ writableBytes(in_) >= kReadBufSize

\* ------------------------------------------------------------------------
\* SpecZSet: one sorted set, at key k, under ZADD and ZREM.  Scores are
\* given as "1", "2", "3" and "nan"; ZADD is given one pair, two pairs, and
\* the same member twice.  history.last is the last command with the
\* database before it and its reply; history.nan tells whether "nan" has
\* been given as a score so far.
\* ------------------------------------------------------------------------

MaxZsOps == 4

ZsMembers == {<<"a">>, <<"b">>, <<"a", "b">>}
ZsScores == {<<"1">>, <<"2">>, <<"3">>, <<"n", "a", "n">>}

ZsCommands ==
    {<<nZADD, kK, s, m>> : s \in ZsScores, m \in ZsMembers}
    \cup {<<nZADD, kK, <<"2">>, <<"a">>, <<"1">>, <<"b">>>>,
          <<nZADD, kK, <<"1">>, <<"b">>, <<"3">>, <<"b">>>>}
    \cup {<<nZREM, kK, m>> : m \in ZsMembers}
    \cup {<<nZREM, kK, <<"a">>, <<"b">>>>}

InitZSet ==
    /\ db = NewDatabase
    /\ now = StartMs
    /\ connFresh
    /\ pc = "serving"
    /\ epoll = {}
    /\ events = {}
    /\ wire = <<>>
    /\ peerClosed = FALSE
    /\ aof = NoAOF
    /\ history = [ops |-> 0, nan |-> FALSE,
                  last |-> [args |-> <<>>, out |-> <<>>, before |-> NewDatabase]]

\* The scores a ZADD gives.
ScoresOf(args) == {args[i] : i \in {j \in 3..Len(args) : j % 2 = 1}}

\* The members a ZADD or ZREM names.
MembersOf(args) ==
    IF args[1] = nZADD
    THEN {args[i] : i \in {j \in 3..Len(args) : j % 2 = 0}}
    ELSE {args[i] : i \in 3..Len(args)}

\* The state once commandTable.dispatch(db, conn, args) has answered d.
executedZs(args, d) ==
    /\ db' = d.db
    /\ history' = [ops |-> history.ops + 1,
                   nan |-> \/ history.nan
                           \/ args[1] = nZADD /\ <<"n", "a", "n">> \in ScoresOf(args),
                   last |-> [args |-> args, out |-> d.out, before |-> db]]

\* One ZADD or ZREM is dispatched.
ZsCommand ==
    /\ history.ops < MaxZsOps
    /\ \E args \in ZsCommands : executedZs(args, dispatch(db, now, args))
    /\ UNCHANGED <<now, connVars, pc, epoll, events, wire, peerClosed, aof>>

NextZSet == ZsCommand

SpecZSet == InitZSet /\ [][NextZSet]_vars

\* The sorted set at k in the database d: its index and its map.
ZSetIn(d) ==
    IF find(d.table, kK).found
    THEN zsetOf(find(d.table, kK).entry.value)
    ELSE [skiplist |-> <<>>, dict |-> <<>>]

\* The (member, score) pairs of the index and of the map of z.
IndexPairs(z) == {<<z.skiplist[j].member, z.skiplist[j].score>> : j \in 1..Len(z.skiplist)}
MapPairs(z) == {<<m, z.dict[m]>> : m \in DOMAIN z.dict}

\* The index of z is strictly ascending by score, then member bytes.
Ascending(z) ==
    \A j \in 1..(Len(z.skiplist) - 1) :
        \/ fLess(z.skiplist[j].score, z.skiplist[j + 1].score)
        \/ /\ fEq(z.skiplist[j].score, z.skiplist[j + 1].score)
           /\ LexLess(z.skiplist[j].member, z.skiplist[j + 1].member, 1)

\* The index and the map of z hold the same pairs, each member once.
InSync(z) ==
    /\ IndexPairs(z) = MapPairs(z)
    /\ Len(z.skiplist) = Cardinality(DOMAIN z.dict)

\* The number of members of z that come before m in the order.
RankOf(z, m) ==
    Cardinality({n \in DOMAIN z.dict : lessThan(z.dict[n], n, z.dict[m], m)})

\* ZRANK and ZRANGE 0 -1 on d answer by the order of the map's scores.
RanksReflectScores(d) ==
    /\ \A m \in DOMAIN ZSetIn(d).dict :
           cmdZRank(d, now, <<nZRANK, kK, m>>).out
               = <<Integer(RankOf(ZSetIn(d), m))>>
    /\ \E range \in {cmdZRange(d, now, <<nZRANGE, kK, <<"0">>, <<"-", "1">>>>).out} :
           /\ range[1] = ArrayHeader(Cardinality(DOMAIN ZSetIn(d).dict))
           /\ \A m \in DOMAIN ZSetIn(d).dict :
                  range[RankOf(ZSetIn(d), m) + 2] = BulkString(m)

\* C39: after any sequence of ZADD and ZREM the map and the index of the
\* sorted set hold the same (member, score) pairs, each member once, and the
\* index is strictly ascending by score, then member; ZADD answers the
\* number of its members that were not present; and ZRANK and ZRANGE answer
\* by the scores the members have now.
C39_MapAndIndexAgree ==
    /\ InSync(ZSetIn(db))
    /\ Ascending(ZSetIn(db))
    /\ (history.ops > 0 /\ history.last.args[1] = nZADD) =>
           history.last.out
               = <<Integer(Cardinality(MembersOf(history.last.args)
                                       \ DOMAIN ZSetIn(history.last.before).dict))>>
    /\ RanksReflectScores(db)

\* The same while "nan" has not been given as a score.
AgreeUnlessNan == ~history.nan => C39_MapAndIndexAgree

\* The member a was added with the score "nan" and then given the score 1:
\* the index holds a twice.
C39_Witness ==
    /\ history.last.args = <<nZADD, kK, <<"1">>, <<"a">>>>
    /\ <<"a">> \in DOMAIN ZSetIn(history.last.before).dict
    /\ ZSetIn(history.last.before).dict[<<"a">>] = NaN
    /\ history.last.out = <<Integer(0)>>
    /\ Len(ZSetIn(db).skiplist) = 2
    /\ DOMAIN ZSetIn(db).dict = {<<"a">>}

\* The score of a member of a set of three was changed so that it moved
\* from the first rank to the last.
C39_WitnessMoved ==
    /\ ~history.nan
    /\ history.last.args = <<nZADD, kK, <<"3">>, <<"a">>>>
    /\ history.last.out = <<Integer(0)>>
    /\ Len(ZSetIn(history.last.before).skiplist) = 3
    /\ ZSetIn(history.last.before).skiplist[1].member = <<"a">>
    /\ ZSetIn(db).skiplist[3].member = <<"a">>
    /\ cmdZRank(db, now, <<nZRANK, kK, <<"a">>>>).out = <<Integer(2)>>

\* ------------------------------------------------------------------------
\* SpecMalformed: the reactor of Spec serving a peer that sends well-formed
\* commands and malformed array frames, in any order, and may shut down.
\* ------------------------------------------------------------------------

MaxMfFrames == 3

\* An array whose element starts with ':' where '$' is expected.
BadHeaderFrame == MalformedFrame

\* An array whose second element starts with '+'.
BadSecondFrame ==
    <<"*", "2">> \o CRLF \o <<"$", "3">> \o CRLF \o nGET \o CRLF
    \o <<"+", "k">> \o CRLF

\* An array whose bulk string declares one byte and holds two.
BadTailFrame ==
    <<"*", "1">> \o CRLF \o <<"$", "1">> \o CRLF \o <<"a", "b">> \o CRLF

\* Each malformed frame up to the bytes that make it malformed.
MalformedHeads ==
    {<<"*", "1">> \o CRLF \o <<":">>,
     <<"*", "2">> \o CRLF \o <<"$", "3">> \o CRLF \o nGET \o CRLF \o <<"+">>,
     <<"*", "1">> \o CRLF \o <<"$", "1">> \o CRLF \o <<"a", "b", CR>>}

MfFrames ==
    {[bytes |-> formatRespCommand(a), args |-> a] :
        a \in {<<nSET, kK, <<"w">>>>, <<nGET, kK>>}}
    \cup {[bytes |-> b, args |-> <<>>] :
              b \in {BadHeaderFrame, BadSecondFrame, BadTailFrame}}

\* The peer sends one more frame.
MfSend ==
    /\ pc = "poll"
    /\ ~peerClosed
    /\ Len(history.sent) < MaxMfFrames
    /\ \E f \in MfFrames :
           /\ wire' = wire \o f.bytes
           /\ history' = [history EXCEPT !.sent = Append(@, f)]
    /\ UNCHANGED <<db, now, connVars, pc, epoll, events, peerClosed, aof>>

NextMalformed ==
    \/ MfSend \/ ClientShutdown
    \/ ReadEvent \/ ParseIncomplete \/ Dispatch
    \/ WriteEvent \/ WriteStep \/ FinishEvent \/ ErrorEvent

SpecMalformed == Init /\ [][NextMalformed]_vars

\* The incoming buffer starts with a malformed array frame.
MalformedAtHead(buf) == \E h \in MalformedHeads : IsPrefix(h, buf.bytes)

\* C40: while a malformed array frame is at the head of the incoming
\* buffer, parse answers incomplete and leaves the buffer as it is; and a
\* step from such a state leaves the frame at the head, the bytes of the
\* buffer a prefix of the bytes it holds afterwards, and the commands
\* dispatched what they were.
C40_MalformedStalls ==
    /\ [](MalformedAtHead(in_) =>
              /\ ~parse(in_).ok
              /\ parse(in_).buf = in_)
    /\ [][MalformedAtHead(in_) =>
              /\ MalformedAtHead(in_')
              /\ IsPrefix(in_.bytes, in_'.bytes)
              /\ history'.dispatched = history.dispatched]_vars

\* A GET was dispatched, then a frame with a bad bulk header arrived, and a
\* complete SET after it: the SET waits in the buffer, and the connection
\* has been closed after the peer shut down.
C40_Witness ==
    /\ pc = "closed"
    /\ Len(history.dispatched) = 1
    /\ IsPrefix(BadHeaderFrame \o formatRespCommand(<<nSET, kK, <<"w">>>>),
                in_.bytes)
    /\ ~find(db.table, kK).found

\* A frame whose bulk string is longer than declared is at the head, with a
\* complete command after it.
C40_WitnessTail ==
    /\ pc = "poll"
    /\ IsPrefix(BadTailFrame \o formatRespCommand(<<nGET, kK>>), in_.bytes)
    /\ history.dispatched = <<>>

====
